---- MODULE Spec2Model ----
(***************************************************************************)
(* Model of the qBittorrent-to-Transmission bridge. The synchronization     *)
(* engine (src/sync_manager.py, class SyncManager): the background sync     *)
(* loop, the merge of sync/maindata responses into the in-memory cache,     *)
(* the locked readers of that cache and the cache of torrent details. The   *)
(* request side: the resolution of Transmission ids to digests              *)
(* (src/transmission_translator.py), the handlers of torrent-get and        *)
(* torrent-remove (src/handlers.py), the adapter calls they make            *)
(* (src/qbittorrent_client.py) and the RPC endpoint (src/bridge.py).        *)
(***************************************************************************)
EXTENDS Integers, Sequences, FiniteSets, TLC

VARIABLES
    cache,        \* self._cache: rid, torrents, server_state, categories, tags, trackers
    lock,         \* owner of self._lock: "free", "sync" or "reader"
    running,      \* self._running
    initialized,  \* self._initialized (threading.Event)
    syncPc,       \* position of the background thread in _sync_loop / _do_sync
    full,         \* the `full` argument of the _do_sync call in progress
    sentRid,      \* the local `rid` of _do_sync (line 107)
    data,         \* the local `data` of _do_sync: the adapter's response
    before,       \* history: the cache as it stood when the latest cycle polled
    outcome,      \* history: how the latest cycle ended ("none" while one runs);
                  \* both histories are kept until the thread sets out to poll again
    torn,         \* history: the torrents map holds a response that was applied in part
    readerPc,     \* position of the request thread
    arg,          \* the torrent_hash argument of the reader call in progress
    ret,          \* the value the last reader call returned
    retTorn,      \* history: torn at the moment ret was copied out
    detailCache,  \* self._detail_cache: digest -> entry
    now,          \* time.time(), in seconds
    upstreamGen,  \* the upstream: how often each torrent's details have changed
    detPc,        \* position of the request thread in get_torrent_details
    detArg,       \* its arguments: torrent_hash as given, the three need_* flags
    detTime,      \* its local current_time
    seen,         \* history: the entry its first lock block found
    fetched,      \* history: the sub-records it fetched -> when, and from which upstream state
    result,       \* its local `result`
    detRet,       \* the dict it returns
    fetchedAt,    \* history: digest -> sub-record -> when, and whether only once, it was fetched
    inv,          \* history: the latest invalidation: its argument, whether an entry was
                  \* there, whether a call for the digest was between its two lock
                  \* blocks (before its fetch, "raced"; after it, "overtaken") or not
                  \* ("quiet"), and what the next store for the digest made of it
                  \* ("refetched", "stale")
    arguments,    \* get_torrent_ids: its `arguments` parameter
    sorted_torrents, \* get_torrent_ids: its `sorted_torrents` parameter
    hashes,       \* get_torrent_ids: what the call returned
    reach,        \* the upstream as the adapter finds it: "up", "down", "rejects"
    logged_in,    \* qbt_client.logged_in
    listing,      \* the upstream: the digests of its torrents
    request,      \* transmission_rpc: the JSON body of the latest request
    response,     \* transmission_rpc: the HTTP status and JSON body it answered
    passed,       \* history: the digests the latest request passed to a mutation call
    upTorrents,   \* the upstream: its torrents, digest -> fields
    upRid,        \* the upstream: the latest response id it handed out
    upAt,         \* the upstream: its torrents as of that response
    changes,      \* how many changes the upstream has seen
    rivalPc,      \* a second request thread in get_torrent_details: where it is
    rivalTime,    \* its current_time
    rivalResult,  \* its `result`, and (history) when each sub-record was fetched
    startPc,      \* the callers of start(): where each is
    stopPc,       \* the caller of stop(): where it is
    thread,       \* self._thread: the thread launched last, 0 for None
    loops         \* the threads start() has launched: where each is in _sync_loop

syncVars == <<cache, lock, running, initialized, syncPc, full, sentRid, data, before, torn, outcome>>
syncVarsButLock == <<cache, running, initialized, syncPc, full, sentRid, data, before, torn, outcome>>
readerVars == <<readerPc, arg, ret, retTorn>>
detailVars == <<detailCache, now, upstreamGen, detPc, detArg, detTime, seen, fetched,
                result, detRet, fetchedAt, inv>>
frontVars == <<arguments, sorted_torrents, hashes, reach, logged_in, listing, request,
               response, passed>>
upVars == <<upTorrents, upRid, upAt, changes>>
rivalVars == <<rivalPc, rivalTime, rivalResult>>
ctlVars == <<startPc, stopPc, thread, loops>>
vars == <<cache, lock, running, initialized, syncPc, full, sentRid, data, before,
          torn, outcome, readerPc, arg, ret, retTorn, detailCache, now, upstreamGen,
          detPc, detArg, detTime, seen, fetched, result, detRet, fetchedAt, inv,
          arguments, sorted_torrents, hashes, reach, logged_in, listing, request,
          response, passed, upTorrents, upRid, upAt, changes, rivalPc, rivalTime,
          rivalResult, startPc, stopPc, thread, loops>>

-----------------------------------------------------------------------------
(* Bounds and universes of the inputs.                                      *)

\* Largest resume token the upstream hands out.
MaxRid == 1

Rids == 0..MaxRid

\* Digests are strings of hex characters; the model keeps two characters of
\* the forty and represents a string as the sequence of its characters.
D1 == <<"a", "1">>
D2 == <<"b", "2">>
Digests == {D1, D2}

\* str.lower() on one character (hex letters only; digits are unchanged).
LowerChar(c) ==
    CASE c = "A" -> "a" [] c = "B" -> "b" [] c = "C" -> "c"
      [] c = "D" -> "d" [] c = "E" -> "e" [] c = "F" -> "f"
      [] OTHER -> c

\* str.lower()
Lower(s) == [i \in DOMAIN s |-> LowerChar(s[i])]

\* The empty dict {} (and the empty payload).
EmptyDict == <<>>

\* Python dicts with keys in K and the value of key k in V(k).
Dicts(K, V(_)) ==
    UNION { { f \in [S -> UNION {V(k) : k \in S}] : \A k \in S : f[k] \in V(k) }
            : S \in SUBSET K }

TorrentFields == {"name", "state"}
TorrentFieldValues(f) == IF f = "name" THEN {"A", "A2"} ELSE {"up"}
\* A torrent record, whole or partial: any subset of the fields.
Entries == Dicts(TorrentFields, TorrentFieldValues)
EntriesAny(h) == Entries
\* A torrents mapping: digest -> record.
TorrentMaps == Dicts(Digests, EntriesAny)

\* A JSON container of a response carries its shape: the merge code calls
\* .items(), iterates or dict.update()s it, and raises on a number.
JDict(f) == [shape |-> "dict", items |-> f]
JList(l) == [shape |-> "list", items |-> l]
JNumber == [shape |-> "number", items |-> <<>>]

ServerKeys == {"dl_info_speed", "free_space_on_disk"}
ServerValues(k) == IF k = "dl_info_speed" THEN {0, 5} ELSE {9}
ServerStates == Dicts(ServerKeys, ServerValues)

CategoryValues(k) == {"/movies"}
CategoryMaps == Dicts({"movies"}, CategoryValues)
TagLists == {<<>>, <<"t1">>}
TrackerValues(k) == {1}
TrackerMaps == Dicts({"udp://t"}, TrackerValues)

RemovedLists == {<<>>, <<D1>>, <<D2>>, <<D1, D2>>}

\* The responses that carry key k with a value of V, and the one without k.
Opt(k, V) == {EmptyDict} \cup {k :> v : v \in V}

\* Responses about torrents: rid, full_update, torrents, torrents_removed.
TorrentResponses ==
    { r @@ f @@ t @@ x :
        r \in Opt("rid", Rids),
        f \in Opt("full_update", {TRUE}),
        t \in Opt("torrents", {JDict(m) : m \in TorrentMaps}),
        x \in Opt("torrents_removed", {JList(l) : l \in RemovedLists} \cup {JNumber}) }

-----------------------------------------------------------------------------
(* Dict primitives.                                                         *)

\* dict.get(k, default)
Get(d, k, default) == IF k \in DOMAIN d THEN d[k] ELSE default

\* data.get(k, <empty container>) for a container section
Section(d, k) == IF k \in DOMAIN d THEN d[k].items ELSE <<>>

\* Using section k of d as a container raises (it is present and no container).
Raises(d, k) == k \in DOMAIN d /\ d[k].shape = "number"

\* old.update(new)
Update(old, new) ==
    [k \in DOMAIN old \cup DOMAIN new |-> IF k \in DOMAIN new THEN new[k] ELSE old[k]]

Range(l) == {l[i] : i \in DOMAIN l}

\* for h in removed: torrents.pop(h, None)
PopAll(torrents, removed) == [h \in DOMAIN torrents \ Range(removed) |-> torrents[h]]

EmptyCache ==
    [rid |-> 0, torrents |-> <<>>, server_state |-> <<>>, categories |-> <<>>,
     tags |-> <<>>, trackers |-> <<>>]

-----------------------------------------------------------------------------
(* SyncManager._do_sync: the statements executed under self._lock.          *)

\* Faulty variant: a response without rid advances the stored rid by one.
SetRidAdvancing(c, d, rid) == [c EXCEPT !.rid = Get(d, "rid", rid + 1)]

\* new_rid = data.get('rid', rid); self._cache['rid'] = new_rid
SetRid(c, d, rid) == [c EXCEPT !.rid = Get(d, "rid", rid)]

\* is_full = data.get('full_update', False)
IsFull(d) == Get(d, "full_update", FALSE)

\* Faulty variant: a full update leaves a section the response omits as it was.
FullReplaceKeepingOmitted(c, d) ==
    [c EXCEPT !.torrents = Section(d, "torrents"),
              !.server_state = IF "server_state" \in DOMAIN d THEN d["server_state"].items ELSE @,
              !.categories = Section(d, "categories"),
              !.tags = Section(d, "tags"),
              !.trackers = Section(d, "trackers")]

\* Full update: the five sections are replaced by the response's, or emptied.
FullReplace(c, d) ==
    [c EXCEPT !.torrents = Section(d, "torrents"),
              !.server_state = Section(d, "server_state"),
              !.categories = Section(d, "categories"),
              !.tags = Section(d, "tags"),
              !.trackers = Section(d, "trackers")]

\* Faulty variant: a changed record replaces the cached record.
MergeIntoReplacing(torrents, updated) ==
    [h \in DOMAIN torrents \cup DOMAIN updated |->
        IF h \in DOMAIN updated THEN updated[h] ELSE torrents[h]]

\* The loop over torrents_updated.items(): update() a known digest's record,
\* insert an unknown digest's.
MergeInto(torrents, updated) ==
    [h \in DOMAIN torrents \cup DOMAIN updated |->
        IF h \in DOMAIN updated
        THEN IF h \in DOMAIN torrents
             THEN Update(torrents[h], updated[h])
             ELSE updated[h]
        ELSE torrents[h]]

\* Faulty variant: the changed torrents become the whole torrents map.
MergeTorrentsOnlyUpdated(c, d) == [c EXCEPT !.torrents = Section(d, "torrents")]

\* Lines 133-146 applied to the cache.
MergeTorrents(c, d) == [c EXCEPT !.torrents = MergeInto(@, Section(d, "torrents"))]

RemoveTorrents(c, d) == [c EXCEPT !.torrents = PopAll(@, Section(d, "torrents_removed"))]

\* Faulty variant: the server state is replaced by the response's.
MergeServerStateReplacing(c, d) ==
    IF "server_state" \in DOMAIN d
    THEN [c EXCEPT !.server_state = d["server_state"].items]
    ELSE c

MergeServerState(c, d) ==
    IF "server_state" \in DOMAIN d
    THEN [c EXCEPT !.server_state = Update(@, d["server_state"].items)]
    ELSE c

MergeCategories(c, d) ==
    IF "categories" \in DOMAIN d
    THEN [c EXCEPT !.categories = Update(@, d["categories"].items)]
    ELSE c

SetTags(c, d) ==
    IF "tags" \in DOMAIN d THEN [c EXCEPT !.tags = d["tags"].items] ELSE c

MergeTrackers(c, d) ==
    IF "trackers" \in DOMAIN d
    THEN [c EXCEPT !.trackers = Update(@, d["trackers"].items)]
    ELSE c

\* Faulty variant: removals are applied before updates.
MergeOrderRemovalsFirst ==
    <<"torrents_removed", "torrents", "server_state", "categories", "trackers">>

\* The sections of an incremental response in the order the code uses them.
\* 'tags' is assigned, never used as a container, so it cannot raise.
MergeOrder == <<"torrents", "torrents_removed", "server_state", "categories", "trackers">>

\* The statement of the incremental branch that handles section k.
MergeStage(c, d, k) ==
    CASE k = "torrents" -> MergeTorrents(c, d)
      [] k = "torrents_removed" -> RemoveTorrents(c, d)
      [] k = "server_state" -> MergeServerState(c, d)
      [] k = "categories" -> SetTags(MergeCategories(c, d), d)
      [] k = "trackers" -> MergeTrackers(c, d)

\* The incremental branch from stage i on: stops where a section raises.
RECURSIVE MergeFrom(_, _, _)
MergeFrom(c, d, i) ==
    IF i > Len(MergeOrder) \/ Raises(d, MergeOrder[i])
    THEN c
    ELSE MergeFrom(MergeStage(c, d, MergeOrder[i]), d, i + 1)

\* The cache a whole `with self._lock:` block leaves, polled with `rid`.
DoSyncApply(c, d, rid) ==
    IF IsFull(d)
    THEN FullReplace(SetRid(c, d, rid), d)
    ELSE MergeFrom(SetRid(c, d, rid), d, 1)

\* Whether that block raises.
DoSyncRaises(d) == ~IsFull(d) /\ \E i \in DOMAIN MergeOrder : Raises(d, MergeOrder[i])

-----------------------------------------------------------------------------
(* The detail cache: SyncManager.get_torrent_details and its invalidation.  *)

\* self._detail_cache_ttl, in seconds.
DetailCacheTtl == 30

\* The clock advances by this many seconds at a time, up to MaxTime.
TickSeconds == 10
MaxTime == 40

\* The details of a torrent change upstream at most this often.
MaxGen == 1

Parts == {"files", "trackers", "properties"}

\* The key of a sub-record's presence flag.
Flag(p) ==
    CASE p = "files" -> "has_files"
      [] p = "trackers" -> "has_trackers"
      [] p = "properties" -> "has_properties"

\* [] for files and trackers, {} for properties.
Placeholder(p) == IF p = "properties" THEN JDict(<<>>) ELSE JList(<<>>)

\* What the upstream answers for sub-record p of a torrent whose details are
\* in their g-th state.
UpstreamDetail(p, g) ==
    CASE p = "files" -> JList(<<[index |-> 0, priority |-> g]>>)
      [] p = "trackers" -> JList(<<[tier |-> 0, msg |-> g]>>)
      [] p = "properties" -> JDict([piece_size |-> g])

\* The three need_* arguments of a call.
Needs == [Parts -> BOOLEAN]
Needed(need) == {p \in Parts : need[p]}
Only(P) == [p \in Parts |-> p \in P]

\* The locals of get_torrent_details when no call is in progress.
NoCall == [torrent_hash |-> <<>>, need |-> Only({})]
NotSeen == [found |-> FALSE, entry |-> <<>>]
NoInvalidation == [phase |-> "none", torrent_hash |-> <<>>, had |-> FALSE]

\* age = current_time - cached.get('timestamp', 0)
Age(entry, t) == t - Get(entry, "timestamp", 0)

\* Faulty variant: an entry is trusted whatever its age.
FreshAlways(entry, t) == TRUE

\* `if age < self._detail_cache_ttl:`
Fresh(entry, t) == Age(entry, t) < DetailCacheTtl

\* has_what_we_need (lines 235-239)
HasWhatWeNeed(entry, need) == \A p \in Parts : ~need[p] \/ Get(entry, Flag(p), FALSE)

\* Lines 229-241: the call is answered from the cache.
IsHit(dc, h, t, need) ==
    /\ h \in DOMAIN dc
    /\ Fresh(dc[h], t)
    /\ HasWhatWeNeed(dc[h], need)

\* Faulty variant: a hit returns whatever the entry holds.
HitResultWhole(entry, need) == [p \in Parts |-> Get(entry, p, Placeholder(p))]

\* Lines 248-252: the dict a hit returns.
HitResult(entry, need) ==
    [p \in Parts |-> IF need[p] THEN Get(entry, p, Placeholder(p)) ELSE Placeholder(p)]

\* Lines 265-284: on a miss every requested sub-record is fetched.
ToFetch(need) == Needed(need)

\* Lines 263-284: `result` once the sub-records of F are fetched from an
\* upstream whose details are in state g.
FetchResult(F, g) ==
    [k \in Parts \cup {Flag(p) : p \in Parts} |->
        IF k \in Parts
        THEN IF k \in F THEN UpstreamDetail(k, g) ELSE Placeholder(k)
        ELSE \E p \in F : Flag(p) = k]

\* Faulty variant: the entry is replaced by what this call fetched.
StoredEntryReplacing(old, need, res, t) ==
    [k \in Needed(need) \cup {Flag(p) : p \in Needed(need)} \cup {"timestamp"} |->
        IF k = "timestamp" THEN t
        ELSE IF k \in Parts THEN res[k] ELSE TRUE]

\* Lines 287-302: the entry after the call has stored what it fetched.
StoredEntry(old, need, res, t) ==
    Update(old,
           [k \in Needed(need) \cup {Flag(p) : p \in Needed(need)} \cup {"timestamp"} |->
               IF k = "timestamp" THEN t
               ELSE IF k \in Parts THEN res[k] ELSE TRUE])

StoreDetails(dc, h, need, res, t) ==
    LET old == IF h \in DOMAIN dc THEN dc[h] ELSE <<>>
    IN  Update(dc, h :> StoredEntry(old, need, res, t))

\* Faulty variant: the digest is looked up as given.
InvalidateKeyAsGiven(torrent_hash) == torrent_hash

\* torrent_hash = torrent_hash.lower()
InvalidateKey(torrent_hash) == Lower(torrent_hash)

\* Lines 308-312: del self._detail_cache[torrent_hash], if it is there.
InvalidateDetails(dc, torrent_hash) ==
    [h \in DOMAIN dc \ {InvalidateKey(torrent_hash)} |-> dc[h]]

-----------------------------------------------------------------------------
(* The background thread: SyncManager._sync_loop and _do_sync, step by step. *)

MergePcs == Range(MergeOrder)
StageIndex(k) == CHOOSE i \in DOMAIN MergeOrder : MergeOrder[i] = k
\* Where the incremental branch continues after the statement for section k.
AfterStage(k) ==
    IF StageIndex(k) = Len(MergeOrder) THEN "release" ELSE MergeOrder[StageIndex(k) + 1]

\* What get_torrent_ids gives back: None, a list of digests, or an exception
\* that leaves it; NotCalled before any call.
ReturnsNone == [kind |-> "None", hashes |-> <<>>]
ReturnsList(l) == [kind |-> "list", hashes |-> l]
RaisesOut == [kind |-> "raised", hashes |-> <<>>]
NotCalled == [kind |-> "not called", hashes |-> <<>>]

\* No request answered yet.
NoResponse == [status |-> 0, body |-> <<>>]

\* The request side before any request, facing an upstream without torrents.
InitFront ==
    /\ arguments = EmptyDict
    /\ sorted_torrents = <<>>
    /\ hashes = NotCalled
    /\ reach = "up"
    /\ logged_in = FALSE
    /\ listing = {}
    /\ request = EmptyDict
    /\ response = NoResponse
    /\ passed = <<>>

\* The upstream before its first torrent and its first response.
InitUp ==
    /\ upTorrents = <<>>
    /\ upRid = 0
    /\ upAt = <<>>
    /\ changes = 0

\* SyncManager.__init__ (lines 16-51): the engine before start().
InitEngine ==
    /\ cache = EmptyCache
    /\ lock = "free"
    /\ running = FALSE
    /\ initialized = FALSE
    /\ syncPc = "idle"
    /\ full = FALSE
    /\ sentRid = 0
    /\ data = EmptyDict
    /\ before = EmptyCache
    /\ outcome = "none"
    /\ torn = FALSE
    /\ readerPc = "idle"
    /\ arg = <<>>
    /\ ret = [op |-> "none", found |-> FALSE, torrents |-> {}]
    /\ retTorn = FALSE
    /\ detailCache = <<>>
    /\ now = 0
    /\ upstreamGen = [d \in Digests |-> 0]
    /\ detPc = "idle"
    /\ detArg = NoCall
    /\ detTime = 0
    /\ seen = NotSeen
    /\ fetched = <<>>
    /\ result = <<>>
    /\ detRet = <<>>
    /\ fetchedAt = <<>>
    /\ inv = NoInvalidation

NoResult == [result |-> <<>>, fetched |-> <<>>]

\* No second request thread yet.
InitRival ==
    /\ rivalPc = "idle"
    /\ rivalTime = 0
    /\ rivalResult = NoResult

\* MaxThreads: how many threads start() calls can have alive at a time.
MaxThreads == 2
Threads == 1..MaxThreads
\* The threads that call start().
Callers == {"c1", "c2"}

\* Nobody is in start() or stop(); self._thread = None (line 50).
InitCtl ==
    /\ startPc = [c \in Callers |-> "idle"]
    /\ stopPc = "idle"
    /\ thread = 0
    /\ loops = [i \in Threads |-> "none"]

Init == InitEngine /\ InitFront /\ InitUp /\ InitRival /\ InitCtl

\* start(): no-op when running; else sets the flag and launches the thread,
\* whose first act is _do_sync(full=True). (A start() while the thread of an
\* earlier start() is still alive is not part of this action.)
Start ==
    /\ ~running
    /\ syncPc \in {"idle", "exited"}
    /\ running' = TRUE
    /\ syncPc' = "poll"
    /\ full' = TRUE
    /\ before' = EmptyCache
    /\ outcome' = "none"
    /\ UNCHANGED <<cache, lock, initialized, sentRid, data, torn>>
    /\ UNCHANGED readerVars
    /\ UNCHANGED detailVars
    /\ UNCHANGED <<frontVars, upVars, rivalVars, ctlVars>>

\* stop(): clears the flag (the join is the caller's wait, not a state change).
Stop ==
    /\ running
    /\ running' = FALSE
    /\ UNCHANGED <<cache, lock, initialized, syncPc, full, sentRid, data, before, torn, outcome>>
    /\ UNCHANGED readerVars
    /\ UNCHANGED detailVars
    /\ UNCHANGED <<frontVars, upVars, rivalVars, ctlVars>>

\* Faulty variant: the loop goes on whatever the flag says.
AfterLoopTestIgnoringFlag(r) == "sleep"

\* Where `while self._running:` sends the thread.
AfterLoopTest(r) == IF r THEN "sleep" ELSE "exited"

\* `while self._running:`
SyncLoop ==
    /\ syncPc = "loop"
    /\ syncPc' = AfterLoopTest(running)
    /\ UNCHANGED <<cache, lock, running, initialized, full, sentRid, data, before, torn, outcome>>
    /\ UNCHANGED readerVars
    /\ UNCHANGED detailVars
    /\ UNCHANGED <<frontVars, upVars, rivalVars, ctlVars>>

\* time.sleep(self.poll_interval) returns; _do_sync(full=False) is called.
SyncSleep ==
    /\ syncPc = "sleep"
    /\ syncPc' = "poll"
    /\ before' = EmptyCache
    /\ outcome' = "none"
    /\ UNCHANGED <<cache, lock, running, initialized, full, sentRid, data, torn>>
    /\ UNCHANGED readerVars
    /\ UNCHANGED detailVars
    /\ UNCHANGED <<frontVars, upVars, rivalVars, ctlVars>>

\* rid = 0 if full else self._cache['rid']
PollRid(c, f) == IF f THEN 0 ELSE c.rid

\* Lines 107-110: the rid is read and the adapter answers with a response of
\* R (the empty payload is the response without keys).
SyncPoll(R) ==
    /\ syncPc = "poll"
    /\ sentRid' = PollRid(cache, full)
    /\ \E resp \in R : data' = resp
    /\ before' = cache
    /\ outcome' = "none"
    /\ syncPc' = "got_data"
    /\ UNCHANGED <<cache, lock, running, initialized, full, torn>>
    /\ UNCHANGED readerVars
    /\ UNCHANGED detailVars
    /\ UNCHANGED <<frontVars, upVars, rivalVars, ctlVars>>

\* Lines 107-110 when the adapter call raises (upstream unreachable, bad JSON).
SyncPollFails ==
    /\ syncPc = "poll"
    /\ sentRid' = PollRid(cache, full)
    /\ before' = cache
    /\ outcome' = "poll_failed"
    /\ syncPc' = "except"
    /\ UNCHANGED <<cache, lock, running, initialized, full, data, torn>>
    /\ UNCHANGED readerVars
    /\ UNCHANGED detailVars
    /\ UNCHANGED <<frontVars, upVars, rivalVars, ctlVars>>

\* _do_sync returns to _sync_loop: the initial call sets the event, the loop
\* goes on to its test; the locals of the call are gone.
Returned ==
    /\ initialized' = (initialized \/ full)
    /\ syncPc' = "loop"
    /\ full' = FALSE
    /\ sentRid' = 0
    /\ data' = EmptyDict
    /\ UNCHANGED before

\* Faulty variant: an empty payload clears the snapshot.
OnEmptyClearing(c) == [c EXCEPT !.torrents = <<>>, !.server_state = <<>>]

\* What an empty payload does to the cache (`if not data: return`).
OnEmpty(c) == c

\* Lines 112-114.
SyncEmpty ==
    /\ syncPc = "got_data"
    /\ data = EmptyDict
    /\ cache' = OnEmpty(cache)
    /\ outcome' = "empty"
    /\ Returned
    /\ UNCHANGED <<lock, running, torn>>
    /\ UNCHANGED readerVars
    /\ UNCHANGED detailVars
    /\ UNCHANGED <<frontVars, upVars, rivalVars, ctlVars>>

\* Faulty variant: the thread keeps the lock when it leaves the block.
LockKept(holder) == holder

\* The lock once its holder leaves a `with self._lock:` block.
LockLeft(holder) == "free"

\* Lines 116-123: the lock is taken, the rid stored, the branch chosen.
SyncLock ==
    /\ syncPc = "got_data"
    /\ data # EmptyDict
    /\ lock = "free"
    /\ lock' = "sync"
    /\ cache' = SetRid(cache, data, sentRid)
    /\ syncPc' = IF IsFull(data) THEN "replace" ELSE MergeOrder[1]
    /\ UNCHANGED <<running, initialized, full, sentRid, data, before, torn, outcome>>
    /\ UNCHANGED readerVars
    /\ UNCHANGED detailVars
    /\ UNCHANGED <<frontVars, upVars, rivalVars, ctlVars>>

\* Lines 124-130.
SyncReplace ==
    /\ syncPc = "replace"
    /\ cache' = FullReplace(cache, data)
    /\ syncPc' = "release"
    /\ UNCHANGED <<lock, running, initialized, full, sentRid, data, before, torn, outcome>>
    /\ UNCHANGED readerVars
    /\ UNCHANGED detailVars
    /\ UNCHANGED <<frontVars, upVars, rivalVars, ctlVars>>

\* Lines 132-165, one section at a time; a section of the wrong shape raises,
\* which leaves the `with` block (releasing the lock) for the loop's handler.
SyncMerge ==
    /\ syncPc \in MergePcs
    /\ IF Raises(data, syncPc)
       THEN /\ syncPc' = "except"
            /\ lock' = LockLeft("sync")
            /\ torn' = (torn \/ cache.torrents # before.torrents)
            /\ outcome' = "raised"
            /\ UNCHANGED cache
       ELSE /\ cache' = MergeStage(cache, data, syncPc)
            /\ syncPc' = AfterStage(syncPc)
            /\ UNCHANGED <<lock, torn, outcome>>
    /\ UNCHANGED <<running, initialized, full, sentRid, data, before>>
    /\ UNCHANGED readerVars
    /\ UNCHANGED detailVars
    /\ UNCHANGED <<frontVars, upVars, rivalVars, ctlVars>>

\* End of the `with` block: the lock is released and _do_sync returns.
SyncRelease ==
    /\ syncPc = "release"
    /\ lock' = LockLeft("sync")
    /\ torn' = FALSE
    /\ outcome' = "applied"
    /\ Returned
    /\ UNCHANGED <<cache, running>>
    /\ UNCHANGED readerVars
    /\ UNCHANGED detailVars
    /\ UNCHANGED <<frontVars, upVars, rivalVars, ctlVars>>

\* Faulty variant: an error in a recurring cycle ends the thread.
AfterErrorExit == "exited"

\* Where the thread goes when a recurring cycle raised.
AfterError == "backoff"

\* The handlers of _sync_loop: a failed initial sync sets the event and ends
\* the thread (lines 90-93); a failed recurring cycle backs off (100-103).
SyncExcept ==
    /\ syncPc = "except"
    /\ initialized' = (initialized \/ full)
    /\ syncPc' = IF full THEN "exited" ELSE AfterError
    /\ full' = FALSE
    /\ sentRid' = 0
    /\ data' = EmptyDict
    /\ UNCHANGED <<cache, lock, running, before, torn, outcome>>
    /\ UNCHANGED readerVars
    /\ UNCHANGED detailVars
    /\ UNCHANGED <<frontVars, upVars, rivalVars, ctlVars>>

\* time.sleep(5) returns.
SyncBackoff ==
    /\ syncPc = "backoff"
    /\ syncPc' = "loop"
    /\ UNCHANGED <<cache, lock, running, initialized, full, sentRid, data, before, torn, outcome>>
    /\ UNCHANGED readerVars
    /\ UNCHANGED detailVars
    /\ UNCHANGED <<frontVars, upVars, rivalVars, ctlVars>>

\* One step of the background thread after its poll.
SyncStep ==
    \/ SyncLoop
    \/ SyncSleep
    \/ SyncEmpty
    \/ SyncLock
    \/ SyncReplace
    \/ SyncMerge
    \/ SyncRelease
    \/ SyncExcept
    \/ SyncBackoff

\* The engine polling responses about torrents, started once and never stopped.
Next ==
    \/ Start
    \/ SyncPoll(TorrentResponses)
    \/ SyncPollFails
    \/ SyncStep

Spec == Init /\ [][Next]_vars

-----------------------------------------------------------------------------
(* A request thread reading the cache: get_torrents, get_torrent_by_hash.   *)

\* torrent = torrent_data.copy(); torrent['hash'] = torrent_hash
WithHash(entry, h) == ("hash" :> h) @@ entry

\* get_torrents(): one copy per snapshot entry, its digest under 'hash'.
\* The list is kept as the set of its elements (its order is the dict's).
TorrentList(torrents) == {WithHash(torrents[h], h) : h \in DOMAIN torrents}

\* `if torrent_data:` - None and the empty dict are both falsy.
Truthy(torrents, h) == h \in DOMAIN torrents /\ torrents[h] # EmptyDict

\* get_torrent_by_hash(torrent_hash): found is FALSE for None.
TorrentByHash(torrents, torrent_hash) ==
    IF Truthy(torrents, Lower(torrent_hash))
    THEN [op |-> "get_torrent_by_hash", found |-> TRUE,
          torrents |-> {WithHash(torrents[Lower(torrent_hash)], Lower(torrent_hash))}]
    ELSE [op |-> "get_torrent_by_hash", found |-> FALSE, torrents |-> {}]

\* The digests request threads ask for: known and unknown, in either case.
D3 == <<"c", "3">>
HashArgs == {D1, <<"A", "1">>, D2, <<"B", "2">>, D3, <<"C", "3">>}

\* `with self._lock:` of get_torrents() or get_torrent_by_hash(h).
ReaderLock ==
    /\ readerPc = "idle"
    /\ lock = "free"
    /\ lock' = "reader"
    /\ \/ readerPc' = "get_torrents" /\ arg' = <<>>
       \/ readerPc' = "get_torrent_by_hash" /\ \E h \in HashArgs : arg' = h
    /\ UNCHANGED <<ret, retTorn>>
    /\ UNCHANGED <<cache, running, initialized, syncPc, full, sentRid, data, before, torn, outcome>>
    /\ UNCHANGED detailVars
    /\ UNCHANGED <<frontVars, upVars, rivalVars, ctlVars>>

\* The body of get_torrents() (lines 172-177).
GetTorrents ==
    /\ readerPc = "get_torrents"
    /\ ret' = [op |-> "get_torrents", found |-> TRUE, torrents |-> TorrentList(cache.torrents)]
    /\ retTorn' = torn
    /\ readerPc' = "unlock"
    /\ UNCHANGED arg
    /\ UNCHANGED syncVars
    /\ UNCHANGED detailVars
    /\ UNCHANGED <<frontVars, upVars, rivalVars, ctlVars>>

\* The body of get_torrent_by_hash() (lines 182-187).
GetTorrentByHash ==
    /\ readerPc = "get_torrent_by_hash"
    /\ ret' = TorrentByHash(cache.torrents, arg)
    /\ retTorn' = torn
    /\ readerPc' = "unlock"
    /\ UNCHANGED arg
    /\ UNCHANGED syncVars
    /\ UNCHANGED detailVars
    /\ UNCHANGED <<frontVars, upVars, rivalVars, ctlVars>>

\* The reader leaves its `with` block and returns.
ReaderUnlock ==
    /\ readerPc = "unlock"
    /\ lock' = LockLeft("reader")
    /\ readerPc' = "idle"
    /\ UNCHANGED <<arg, ret, retTorn>>
    /\ UNCHANGED <<cache, running, initialized, syncPc, full, sentRid, data, before, torn, outcome>>
    /\ UNCHANGED detailVars
    /\ UNCHANGED <<frontVars, upVars, rivalVars, ctlVars>>

ReaderStep ==
    \/ ReaderLock
    \/ GetTorrents
    \/ GetTorrentByHash
    \/ ReaderUnlock

-----------------------------------------------------------------------------
(* The request thread in get_torrent_details, invalidation, mutations.      *)

\* D1 as a client may spell it.
UpperD1 == <<"A", "1">>

\* History of digest h's entry once the fetches F are stored: for each
\* sub-record the time of its latest fetch, and whether that was the only one
\* since the entry was created.
Logged(log, h, F) ==
    LET old == IF h \in DOMAIN log THEN log[h] ELSE <<>>
    IN  [p \in DOMAIN old \cup DOMAIN F |->
            IF p \in DOMAIN F
            THEN [at |-> F[p].at, once |-> p \notin DOMAIN old]
            ELSE old[p]]

\* time.time() moves on.
Tick ==
    /\ now + TickSeconds <= MaxTime
    /\ now' = now + TickSeconds
    /\ UNCHANGED <<detailCache, upstreamGen, detPc, detArg, detTime, seen, fetched, result,
                   detRet, fetchedAt, inv>>
    /\ UNCHANGED <<syncVars, readerVars, frontVars, upVars, rivalVars, ctlVars>>

\* Lines 224-225: a request thread calls get_torrent_details with a digest of
\* H and needs of N; the time is read before the lock is asked for.
DetailCall(H, N) ==
    /\ detPc = "idle"
    /\ \E h \in H, need \in N : detArg' = [torrent_hash |-> h, need |-> need]
    /\ detTime' = now
    /\ detPc' = "check"
    /\ UNCHANGED <<detailCache, now, upstreamGen, seen, fetched, result, detRet, fetchedAt, inv>>
    /\ UNCHANGED <<syncVars, readerVars, frontVars, upVars, rivalVars, ctlVars>>

\* Lines 227-254, one `with self._lock:` block: a hit returns from inside it.
DetailCheck ==
    /\ detPc = "check"
    /\ lock = "free"
    /\ LET h == Lower(detArg.torrent_hash)
       IN  /\ seen' = IF h \in DOMAIN detailCache
                      THEN [found |-> TRUE, entry |-> detailCache[h]]
                      ELSE NotSeen
           /\ IF IsHit(detailCache, h, detTime, detArg.need)
              THEN /\ detRet' = HitResult(detailCache[h], detArg.need)
                   /\ detPc' = "done"
              ELSE /\ detPc' = "fetch"
                   /\ UNCHANGED detRet
    /\ UNCHANGED <<detailCache, now, upstreamGen, detArg, detTime, fetched, result, fetchedAt, inv>>
    /\ lock' = LockLeft("detail")
    /\ UNCHANGED <<syncVarsButLock, readerVars, frontVars, upVars, rivalVars, ctlVars>>

\* Lines 256-284: the upstream calls, made without the lock.
DetailFetch ==
    /\ detPc = "fetch"
    /\ LET h == Lower(detArg.torrent_hash)
           F == ToFetch(detArg.need)
       IN  /\ result' = FetchResult(F, IF h \in Digests THEN upstreamGen[h] ELSE 0)
           /\ fetched' = [p \in F |-> [at |-> now, gen |-> IF h \in Digests THEN upstreamGen[h] ELSE 0]]
    /\ detPc' = "store"
    /\ UNCHANGED <<detailCache, now, upstreamGen, detArg, detTime, seen, detRet, fetchedAt, inv>>
    /\ UNCHANGED <<syncVars, readerVars, frontVars, upVars, rivalVars, ctlVars>>

\* The history of an invalidation once a call stores the digest's entry:
\* the first store after a quiet invalidation is a refetch; the store of an
\* overtaken call leaves an entry fetched before the invalidation ("stale")
\* until the next store.
AfterStore(phase) ==
    CASE phase = "quiet" -> "refetched"
      [] phase = "overtaken" -> "stale"
      [] phase = "stale" -> "raced"
      [] OTHER -> phase

\* Lines 286-304, the second `with self._lock:` block, and the return.
DetailStore ==
    /\ detPc = "store"
    /\ lock = "free"
    /\ LET h == Lower(detArg.torrent_hash)
       IN  /\ detailCache' = StoreDetails(detailCache, h, detArg.need, result, detTime)
           /\ fetchedAt' = Update(fetchedAt, h :> Logged(fetchedAt, h, fetched))
           /\ inv' = IF Lower(inv.torrent_hash) = h
                     THEN [inv EXCEPT !.phase = AfterStore(@)]
                     ELSE inv
    /\ detRet' = result
    /\ detPc' = "done"
    /\ UNCHANGED <<now, upstreamGen, detArg, detTime, seen, fetched, result>>
    /\ lock' = LockLeft("detail")
    /\ UNCHANGED <<syncVarsButLock, readerVars, frontVars, upVars, rivalVars, ctlVars>>

\* The caller has its dict; the locals of the call are gone.
DetailReturn ==
    /\ detPc = "done"
    /\ detPc' = "idle"
    /\ detArg' = NoCall
    /\ detTime' = 0
    /\ seen' = NotSeen
    /\ fetched' = <<>>
    /\ result' = <<>>
    /\ detRet' = <<>>
    /\ inv' = IF inv.phase = "refetched" THEN NoInvalidation ELSE inv
    /\ UNCHANGED <<detailCache, now, upstreamGen, fetchedAt>>
    /\ UNCHANGED <<syncVars, readerVars, frontVars, upVars, rivalVars, ctlVars>>

\* A call for digest h has checked the cache and not yet stored.
InFlight(h) == detPc \in {"fetch", "store"} /\ Lower(detArg.torrent_hash) = h

\* How an invalidation of digest h finds the request thread: in no call for
\* h ("quiet"), before the upstream calls of one ("raced"), or with their
\* result in hand and not yet stored ("overtaken").
Caught(h) ==
    IF ~InFlight(h) THEN "quiet"
    ELSE IF detPc = "fetch" THEN "raced"
    ELSE "overtaken"

\* invalidate_torrent_details(torrent_hash), one `with self._lock:` block,
\* called from another thread with a digest of H.
Invalidate(H) ==
    /\ lock = "free"
    /\ \E torrent_hash \in H :
         /\ detailCache' = InvalidateDetails(detailCache, torrent_hash)
         /\ fetchedAt' = [h \in DOMAIN fetchedAt \ {InvalidateKey(torrent_hash)} |-> fetchedAt[h]]
         /\ inv' = [phase |-> Caught(Lower(torrent_hash)),
                    torrent_hash |-> torrent_hash,
                    had |-> Lower(torrent_hash) \in DOMAIN detailCache]
    /\ UNCHANGED <<now, upstreamGen, detPc, detArg, detTime, seen, fetched, result, detRet>>
    /\ lock' = LockLeft("detail")
    /\ UNCHANGED <<syncVarsButLock, readerVars, frontVars, upVars, rivalVars, ctlVars>>

\* A mutation handler of handlers.py (torrent-rename-path, the tracker and
\* file-priority branches of torrent-set, torrent-tracker-add/-remove/
\* -replace) for a digest of H: it calls the upstream's mutation, which
\* changes the torrent's details there, and returns. It makes no call on the
\* detail cache.
MutationHandler(H) ==
    /\ \E d \in H :
         /\ upstreamGen[d] < MaxGen
         /\ upstreamGen' = [upstreamGen EXCEPT ![d] = @ + 1]
    /\ UNCHANGED <<detailCache, now, detPc, detArg, detTime, seen, fetched, result, detRet,
                   fetchedAt, inv>>
    /\ UNCHANGED <<syncVars, readerVars, frontVars, upVars, rivalVars, ctlVars>>

\* A request thread in get_torrent_details.
DetailThread(H, N) ==
    \/ DetailCall(H, N)
    \/ DetailCheck
    \/ DetailFetch
    \/ DetailStore
    \/ DetailReturn

\* Detail reads of one digest, in either letter case and with every
\* combination of needs, while time passes and its details change upstream.
NextDetail ==
    \/ Tick
    \/ MutationHandler({D1})
    \/ DetailThread({D1, UpperD1}, Needs)

SpecDetail == Init /\ [][NextDetail]_vars

\* Detail reads of two digests with invalidations and mutations by other
\* request threads, all within one tick of the clock.
NextInvalidate ==
    \/ Invalidate({D1, UpperD1, D2})
    \/ MutationHandler(Digests)
    \/ DetailThread({D1, UpperD1, D2}, {Only({"files"}), Only({"files", "trackers"})})

SpecInvalidate == Init /\ [][NextInvalidate]_vars

-----------------------------------------------------------------------------
(* Further specifications: other response universes, readers, fairness.     *)

\* Responses about the global sections, with at most one torrent.
\* (A full response with a section of the wrong shape is left out: the full
\* branch stores it unread, and nothing modelled here reads it back.)
SectionResponses ==
    { resp \in {r @@ f @@ t @@ s @@ c @@ g @@ k :
        r \in Opt("rid", {MaxRid}),
        f \in Opt("full_update", {TRUE}),
        t \in Opt("torrents", {JDict(D1 :> [name |-> "A"])}),
        s \in Opt("server_state", {JDict(m) : m \in ServerStates} \cup {JNumber}),
        c \in Opt("categories", {JDict(m) : m \in CategoryMaps}),
        g \in Opt("tags", {JList(l) : l \in TagLists}),
        k \in Opt("trackers", {JDict(m) : m \in TrackerMaps}) } :
      ~(IsFull(resp) /\ Raises(resp, "server_state")) }

NextSections ==
    \/ Start
    \/ SyncPoll(SectionResponses)
    \/ SyncPollFails
    \/ SyncStep

SpecSections == Init /\ [][NextSections]_vars

\* A small universe for the interleavings: records with a name or no field.
SmallFieldValues(f) == {"A"}
SmallEntries(h) == Dicts({"name"}, SmallFieldValues)
SmallResponses ==
    { f @@ t @@ x :
        f \in Opt("full_update", {TRUE}),
        t \in Opt("torrents", {JDict(m) : m \in Dicts(Digests, SmallEntries)}),
        x \in Opt("torrents_removed", {JList(<<D1>>), JNumber}) }

\* The background thread.
SyncThread(R) ==
    \/ SyncPoll(R)
    \/ SyncPollFails
    \/ SyncStep

\* The engine with a request thread reading while it syncs, and stop().
NextConc ==
    \/ Start
    \/ Stop
    \/ SyncThread(SmallResponses)
    \/ ReaderStep

SpecConc == Init /\ [][NextConc]_vars

\* The responses of R that apply without raising.
WellShaped(R) == {resp \in R : ~DoSyncRaises(resp)}

\* The same, when the upstream sends no section of the wrong shape.
NextConcWellShaped ==
    \/ Start
    \/ Stop
    \/ SyncThread(WellShaped(SmallResponses))
    \/ ReaderStep

SpecConcWellShaped == Init /\ [][NextConcWellShaped]_vars

\* The engine alone, started and stopped; once its poll has come back the
\* thread is scheduled fairly (it gets the free lock, its sleeps end).
NextLive ==
    \/ Start
    \/ Stop
    \/ SyncThread(SmallResponses)

SpecLive == Init /\ [][NextLive]_vars /\ WF_vars(SyncStep)

\* The same engine when, besides, every upstream call comes back (with a
\* response or an error: the HTTP client's timeouts bound it).
SpecStop == Init /\ [][NextLive]_vars /\ WF_vars(SyncThread(SmallResponses))

\* The same again, with start() called again and again by the application.
SpecRetry ==
    Init /\ [][NextLive]_vars /\ WF_vars(SyncThread(SmallResponses)) /\ WF_vars(Start)

-----------------------------------------------------------------------------
(* Properties of the merge (_do_sync).                                      *)

\* The response in hand is incremental and its `with` block ran to its end.
IncrementalApplied == syncPc = "release" /\ ~IsFull(data)

\* new is old overlaid with delta: delta's fields take delta's values, the
\* other fields of old keep theirs, and there is no further field.
Overlaid(new, old, delta) ==
    /\ DOMAIN new = DOMAIN old \cup DOMAIN delta
    /\ \A f \in DOMAIN delta : new[f] = delta[f]
    /\ \A f \in DOMAIN old \ DOMAIN delta : new[f] = old[f]

\* Digest h of the response's 'torrents' was merged as the claim says.
MergedAsOverlay(h) ==
    /\ h \in DOMAIN cache.torrents
    /\ IF h \in DOMAIN before.torrents
       THEN Overlaid(cache.torrents[h], before.torrents[h], Section(data, "torrents")[h])
       ELSE cache.torrents[h] = Section(data, "torrents")[h]

\* C1: when an incremental response is applied, each digest under 'torrents'
\* that was in the snapshot gets its old record overlaid with the changed
\* fields (unmentioned fields keep their value), and each digest that was
\* absent is inserted with the delta's fields. Checked right after the merge
\* loop for every listed digest, and at the end of the block for the listed
\* digests the same response does not remove.
C1_IncrementalOverlay ==
    /\ (syncPc = "torrents_removed" /\ ~IsFull(data)) =>
           \A h \in DOMAIN Section(data, "torrents") : MergedAsOverlay(h)
    /\ IncrementalApplied =>
           \A h \in DOMAIN Section(data, "torrents") \ Range(Section(data, "torrents_removed")) :
               MergedAsOverlay(h)

\* C1 witness: the merge loop has overlaid one field of a two-field record
\* with a new value and inserted a digest that was absent.
C1_Witness ==
    /\ syncPc = "torrents_removed"
    /\ ~IsFull(data)
    /\ before.torrents = (D1 :> [name |-> "A", state |-> "up"])
    /\ Section(data, "torrents") = (D1 :> [name |-> "A2"]) @@ (D2 :> [name |-> "A"])
    /\ cache.torrents = (D1 :> [name |-> "A2", state |-> "up"]) @@ (D2 :> [name |-> "A"])

\* C2: after an incremental response is applied, every digest listed in its
\* 'torrents_removed' is absent from the snapshot, whether or not it was
\* there before and also when the response lists it under 'torrents'.
C2_RemovedAbsent ==
    IncrementalApplied =>
        \A h \in Range(Section(data, "torrents_removed")) : h \notin DOMAIN cache.torrents

\* C2 witness: the response removed a digest that was present and that it also
\* updates, and one that was absent.
C2_Witness ==
    /\ IncrementalApplied
    /\ Section(data, "torrents_removed") = <<D1, D2>>
    /\ D1 \in DOMAIN before.torrents
    /\ D2 \notin DOMAIN before.torrents
    /\ D1 \in DOMAIN Section(data, "torrents")
    /\ D1 \notin DOMAIN cache.torrents

FiveSections(c) == <<c.torrents, c.server_state, c.categories, c.tags, c.trackers>>

\* C3: a full update leaves torrents, server_state, categories, tags and
\* trackers equal to the response's contents (empty for an omitted section),
\* which is also what the same response leaves when applied to the empty
\* snapshot: the prior snapshot plays no part.
C3_FullReplaces ==
    (syncPc = "release" /\ IsFull(data)) =>
        /\ FiveSections(cache) =
               <<Section(data, "torrents"), Section(data, "server_state"),
                 Section(data, "categories"), Section(data, "tags"), Section(data, "trackers")>>
        /\ FiveSections(cache) = FiveSections(DoSyncApply(EmptyCache, data, 0))

\* C3 witness: a full response without server_state and tags was applied to a
\* snapshot that had every section filled.
C3_Witness ==
    /\ syncPc = "release"
    /\ IsFull(data)
    /\ before.torrents # <<>> /\ before.server_state # <<>> /\ before.categories # <<>>
    /\ before.tags # <<>> /\ before.trackers # <<>>
    /\ DOMAIN data = {"full_update", "categories"}
    /\ cache.server_state = <<>>

\* C4: merge idempotence: applying the incremental response just applied a
\* second time (polled with the rid now stored) leaves rid, torrents,
\* server_state, categories, tags and trackers as they are.
C4_MergeIdempotent ==
    IncrementalApplied => DoSyncApply(cache, data, PollRid(cache, FALSE)) = cache

\* C4 witness: an incremental response without rid that updated, inserted and
\* removed has been applied and changed the snapshot.
C4_Witness ==
    /\ IncrementalApplied
    /\ "rid" \notin DOMAIN data
    /\ cache.rid # 0
    /\ Section(data, "torrents") # <<>>
    /\ Section(data, "torrents_removed") # <<>>
    /\ cache.torrents # before.torrents
    /\ cache.torrents # <<>>

\* C5: an incremental response with 'server_state' is merged key by key:
\* every cached key it does not mention keeps its value, every key it
\* mentions takes the response's value.
C5_ServerStateMerged ==
    (syncPc \in {"categories", "trackers", "release"} /\ ~IsFull(data)
        /\ "server_state" \in DOMAIN data) =>
        Overlaid(cache.server_state, before.server_state, Section(data, "server_state"))

\* C5 witness: a one-key server_state changed that key's value and the other
\* cached key kept its value.
C5_Witness ==
    /\ IncrementalApplied
    /\ before.server_state = [dl_info_speed |-> 0, free_space_on_disk |-> 9]
    /\ Section(data, "server_state") = [dl_info_speed |-> 5]
    /\ cache.server_state = [dl_info_speed |-> 5, free_space_on_disk |-> 9]

\* C6: a cycle whose payload is empty changes nothing: once it has returned,
\* rid, torrents, server_state, categories, tags and trackers are as they
\* were when it polled.
C6_EmptyPayloadSkipped == outcome = "empty" => cache = before

\* C6 witness: an empty payload arrived while the snapshot was filled.
C6_Witness ==
    /\ outcome = "empty"
    /\ syncPc = "loop"
    /\ cache.torrents # <<>>
    /\ cache.rid # 0

\* C7 (as claimed): a recurring cycle whose response raises while it is
\* applied is skipped as a whole: when the loop backs off, torrents,
\* server_state and the stored rid are as they were when the cycle polled.
C7_FailedCycleSkipped ==
    (syncPc = "backoff" /\ outcome = "raised") =>
        /\ cache.torrents = before.torrents
        /\ cache.server_state = before.server_state
        /\ cache.rid = before.rid

-----------------------------------------------------------------------------
(* Properties of the readers and of the loop.                               *)

\* C8 (as claimed): every list get_torrents() returns is the torrents map as
\* it stood right after a wholly applied response (or the initial empty map),
\* each entry carrying its digest under 'hash': the list just copied lists
\* the map's entries, and the map it was copied from held no response applied
\* in part.
C8_ReadersSeeWholeSnapshots ==
    ret.op = "get_torrents" =>
        /\ ~retTorn
        /\ readerPc = "unlock" =>
               /\ {t.hash : t \in ret.torrents} = DOMAIN cache.torrents
               /\ \A t \in ret.torrents : t = WithHash(cache.torrents[t.hash], t.hash)

\* C9 (as claimed): for a digest that is a key of the snapshot, given in any
\* letter case, get_torrent_by_hash returns the record get_torrents lists for
\* it (the entry with 'hash' set to the digest), also when the entry has no
\* fields; for a digest not in the snapshot it returns None.
C9_LookupByHash ==
    (readerPc = "unlock" /\ ret.op = "get_torrent_by_hash") =>
        IF Lower(arg) \in DOMAIN cache.torrents
        THEN /\ ret.found
             /\ \E t \in TorrentList(cache.torrents) :
                    t.hash = Lower(arg) /\ ret.torrents = {t}
        ELSE ~ret.found

\* A recurring cycle has just raised (in the poll or in the merge).
RecurringCycleFailed == syncPc = "except" /\ ~full

\* C10: a recurring cycle that raises never ends the loop: the handler is
\* followed by the backoff sleep and that by the loop test; the thread ends
\* only when the running flag is down (or the initial sync failed); and,
\* the thread being scheduled, every failed recurring cycle is followed by
\* another poll unless the engine is stopped.
C10_LoopSurvivesErrors ==
    /\ [][RecurringCycleFailed => syncPc' \in {"except", "backoff"}]_vars
    /\ [][syncPc = "backoff" => syncPc' \in {"backoff", "loop"}]_vars
    /\ [][(syncPc # "exited" /\ syncPc' = "exited") => (~running \/ full)]_vars
    /\ (RecurringCycleFailed ~> (syncPc = "poll" \/ ~running))

\* C10 witness: the engine is running and its thread, having backed off
\* after a recurring cycle that raised while merging, is about to poll again.
C10_Witness ==
    /\ running
    /\ syncPc = "sleep"
    /\ outcome = "raised"
    /\ initialized

-----------------------------------------------------------------------------
(* Properties of start() and stop().                                        *)

\* The step in which the initial _do_sync of a thread ends (returns or raises).
FirstAttemptEnds ==
    /\ full
    /\ syncPc \in {"got_data", "release", "except"}
    /\ syncPc' \in {"loop", "exited"}

\* C11 (as claimed): is_ready() (the event start() waits on) is false until
\* the first sync attempt completes, is true once that attempt has returned
\* or raised, never becomes false again, and after a first attempt that
\* raised the snapshot (torrents, server_state, categories, tags, trackers)
\* is empty.
C11_ReadyAfterFirstAttempt ==
    /\ [][(~initialized /\ initialized') => FirstAttemptEnds]_vars
    /\ [][FirstAttemptEnds => initialized']_vars
    /\ [][initialized => initialized']_vars
    /\ [][(~initialized /\ initialized' /\ syncPc = "except") =>
            FiveSections(cache') = FiveSections(EmptyCache)]_vars

\* C11 without its last clause: the lifecycle of the ready flag alone.
C11_ReadyFlag ==
    /\ [][(~initialized /\ initialized') => FirstAttemptEnds]_vars
    /\ [][FirstAttemptEnds => initialized']_vars
    /\ [][initialized => initialized']_vars

\* The initial sync of a thread has just raised.
FirstAttemptFailed == syncPc = "except" /\ full

\* C12 (as claimed): after a failed first sync attempt the engine polls
\* again (further ticks of the loop, or the polling a later start()
\* launches), unless it is stopped.
C12_RetriesAfterFailedStart == FirstAttemptFailed ~> (syncPc = "poll" \/ ~running)

\* C13: once the flag is down the thread comes to its end (start() cannot
\* launch another before); while the thread is ended nothing writes the
\* snapshot or the rid; and the step that lowers the flag is taken on a
\* running engine only and changes nothing else.
C13_StopEndsLoop ==
    /\ (~running ~> syncPc \in {"idle", "exited"})
    /\ [][syncPc = "exited" => cache' = cache]_vars
    /\ [][(running' # running /\ ~running') =>
            (running /\ UNCHANGED <<cache, lock, initialized, syncPc>>)]_vars

\* C13 witness: an engine that was stopped after its snapshot was filled,
\* its thread ended by the loop test.
C13_Witness ==
    /\ ~running
    /\ syncPc = "exited"
    /\ initialized
    /\ cache.torrents # <<>>

-----------------------------------------------------------------------------
(* Properties of the detail cache.                                          *)

\* The digest the call in progress is about.
DetailKey == Lower(detArg.torrent_hash)

\* Sub-record p was validly cached when the call looked: an entry existed,
\* its age was below the TTL and p's presence flag was set.
ValidlyCached(p) ==
    /\ seen.found
    /\ Fresh(seen.entry, detTime)
    /\ Get(seen.entry, Flag(p), FALSE)

\* The call in progress was answered from the cache.
WasHit == detPc = "done" /\ result = <<>>

\* C14 (as claimed): a sub-record is fetched only if it is requested and not
\* validly cached; a requested sub-record that is validly cached is not
\* refetched, also when another requested one has to be fetched.
C14_FetchOnlyWhatIsMissing ==
    detPc \in {"store", "done"} =>
        \A p \in DOMAIN fetched : detArg.need[p] /\ ~ValidlyCached(p)

\* C15: partial fill. A files-only call that finds no entry fetches files
\* and nothing else; a trackers-only call that then finds the entry fresh,
\* holding files and no trackers, fetches trackers and nothing else, and
\* leaves the entry with both sub-records flagged, the files as they were; a
\* files-only call that finds the entry fresh with files flagged fetches
\* nothing and returns the cached files.
C15_PartialFill ==
    detPc = "done" =>
        /\ (detArg.need = Only({"files"}) /\ ~seen.found) =>
               /\ DOMAIN fetched = {"files"}
               /\ Get(detailCache[DetailKey], "has_files", FALSE)
        /\ (detArg.need = Only({"trackers"}) /\ ValidlyCached("files")
                /\ ~ValidlyCached("trackers")) =>
               /\ DOMAIN fetched = {"trackers"}
               /\ Get(detailCache[DetailKey], "has_files", FALSE)
               /\ Get(detailCache[DetailKey], "has_trackers", FALSE)
               /\ detailCache[DetailKey]["files"] = seen.entry["files"]
               /\ detailCache[DetailKey]["trackers"] = detRet["trackers"]
        /\ (detArg.need = Only({"files"}) /\ ValidlyCached("files")) =>
               /\ DOMAIN fetched = {}
               /\ detRet["files"] = seen.entry["files"]

\* C15 witness: the third call of the scenario has been answered from an
\* entry whose files were fetched once, ten seconds before its trackers
\* were fetched once, the call coming ten seconds after that.
C15_Witness ==
    /\ WasHit
    /\ detArg.need = Only({"files"})
    /\ fetchedAt[DetailKey] =
           [files |-> [at |-> 0, once |-> TRUE], trackers |-> [at |-> TickSeconds, once |-> TRUE]]
    /\ seen.entry["timestamp"] = TickSeconds
    /\ detTime = 2 * TickSeconds
    /\ detRet["files"] = UpstreamDetail("files", 0)

\* C16: a call that finds an entry whose age is at least the TTL fetches
\* every requested sub-record, whatever flags the entry has, and returns the
\* values it fetched.
C16_ExpiredEntryRefetched ==
    (detPc = "done" /\ seen.found /\ Age(seen.entry, detTime) >= DetailCacheTtl) =>
        /\ DOMAIN fetched = Needed(detArg.need)
        /\ \A p \in Needed(detArg.need) : detRet[p] = UpstreamDetail(p, fetched[p].gen)

\* C16 witness: a call for files found them flagged in an entry of an age at
\* or beyond the TTL, and returned files that differ from the cached ones.
C16_Witness ==
    /\ detPc = "done"
    /\ seen.found
    /\ Age(seen.entry, detTime) >= DetailCacheTtl
    /\ detArg.need["files"]
    /\ Get(seen.entry, "has_files", FALSE)
    /\ detRet["files"] # seen.entry["files"]

\* C17 (as claimed): bounded staleness: every sub-record a hit returns was
\* fetched less than the TTL before the call.
C17_BoundedStaleness ==
    WasHit =>
        \A p \in Needed(detArg.need) : detTime - fetchedAt[DetailKey][p].at < DetailCacheTtl

\* C18: a sub-record that was not requested is returned as its empty
\* placeholder and is not fetched, on a hit and on a fetch alike.
C18_UnrequestedIsPlaceholder ==
    detPc = "done" =>
        \A p \in Parts \ Needed(detArg.need) :
            detRet[p] = Placeholder(p) /\ p \notin DOMAIN fetched

\* C18 witness: a hit for files alone on an entry that holds trackers too.
C18_Witness ==
    /\ WasHit
    /\ detArg.need = Only({"files"})
    /\ Get(seen.entry, "has_trackers", FALSE)
    /\ seen.entry["trackers"] # Placeholder("trackers")
    /\ detRet["trackers"] = Placeholder("trackers")

\* C19: invalidate_torrent_details(d), d in any letter case, with no call
\* for d between its two lock blocks: the step removes d's entry and leaves
\* every other entry as it was; no entry for d appears until the next call
\* for d stores one; and that call fetches every sub-record it is asked for.
C19_InvalidateRemoves ==
    /\ [][(inv' # inv /\ inv'.phase = "quiet") =>
            detailCache' =
                [h \in DOMAIN detailCache \ {Lower(inv'.torrent_hash)} |-> detailCache[h]]]_vars
    /\ [](inv.phase = "quiet" => Lower(inv.torrent_hash) \notin DOMAIN detailCache)
    /\ []((inv.phase = "refetched" /\ detPc = "done") =>
            /\ DetailKey = Lower(inv.torrent_hash)
            /\ DOMAIN fetched = Needed(detArg.need))

\* C19 witness: D1's entry was invalidated under its upper-case spelling
\* while D2's entry stayed, and the next call for D1 has fetched the files
\* and trackers it was asked for.
C19_Witness ==
    /\ inv = [phase |-> "refetched", torrent_hash |-> UpperD1, had |-> TRUE]
    /\ detPc = "done"
    /\ D2 \in DOMAIN detailCache
    /\ DOMAIN fetched = {"files", "trackers"}

\* C20 (as claimed): when a mutation handler has changed the details of
\* digest d upstream, the detail cache holds no entry for d, and a detail
\* read answered from the cache returns what the upstream holds.
C20_MutationInvalidates ==
    /\ [][\A d \in Digests :
            upstreamGen'[d] # upstreamGen[d] => d \notin DOMAIN detailCache']_vars
    /\ [][(detPc = "check" /\ detPc' = "done" /\ DetailKey \in Digests) =>
            \A p \in Needed(detArg.need) :
                detRet'[p] = UpstreamDetail(p, upstreamGen[DetailKey])]_vars

-----------------------------------------------------------------------------
(* Transmission ids: TransmissionTranslator.get_torrent_ids                 *)
(* (src/transmission_translator.py) and the sorted listing it is given.     *)

\* len(id_val) == 40: a string of forty characters is taken for a digest.
HashLen == 40

\* hash[:8]: the characters whose value in base 16 is the content-derived ID.
IdPrefixLen == 8

HexDigits == <<"0", "1", "2", "3", "4", "5", "6", "7", "8", "9",
               "a", "b", "c", "d", "e", "f">>
DecDigits == SubSeq(HexDigits, 1, 10)

\* The value of character c among `digits`, -1 when it is none of them.
DigitOf(c, digits) ==
    IF \E i \in DOMAIN digits : digits[i] = c
    THEN (CHOOSE i \in DOMAIN digits : digits[i] = c) - 1
    ELSE -1

RECURSIVE DigitsValue(_, _, _)
DigitsValue(s, digits, acc) ==
    IF s = <<>> THEN acc
    ELSE DigitsValue(Tail(s), digits, acc * Len(digits) + DigitOf(Head(s), digits))

\* int(s, base) of an unsigned string: err stands for its ValueError.
ParseInt(s, digits) ==
    IF s = <<>> \/ \E i \in DOMAIN s : DigitOf(s[i], digits) = -1
    THEN [err |-> TRUE, val |-> 0]
    ELSE [err |-> FALSE, val |-> DigitsValue(s, digits, 0)]

\* JSON values as Python holds them; a list holds values.
VNone == [kind |-> "None", num |-> 0, str |-> <<>>, items |-> <<>>]
VInt(k) == [kind |-> "int", num |-> k, str |-> <<>>, items |-> <<>>]
VStr(s) == [kind |-> "str", num |-> 0, str |-> s, items |-> <<>>]
VList(l) == [kind |-> "list", num |-> 0, str |-> <<>>, items |-> l]
\* The float json.loads makes of 1e999: infinity.
VInf == [kind |-> "float", num |-> 0, str |-> <<"i", "n", "f">>, items |-> <<>>]

RecentlyActive ==
    <<"r", "e", "c", "e", "n", "t", "l", "y", "-", "a", "c", "t", "i", "v", "e">>

\* int(id_val) at line 277: the integer; the ValueError of a string that is no
\* number and the TypeError of None or a list, which line 301 catches; the
\* OverflowError of an infinite float, which it does not.
IntOf(v) ==
    CASE v.kind = "int" -> [err |-> "none", val |-> v.num]
      [] v.kind = "str" ->
            LET p == ParseInt(v.str, DecDigits)
            IN  [err |-> IF p.err THEN "ValueError" ELSE "none", val |-> p.val]
      [] v.kind = "float" -> [err |-> "OverflowError", val |-> 0]
      [] OTHER -> [err |-> "TypeError", val |-> 0]

\* int(torrent['hash'].lower()[:8], 16)
ContentId(h) == ParseInt(SubSeq(Lower(h), 1, IdPrefixLen), HexDigits).val

Least(S) == CHOOSE x \in S : \A y \in S : x <= y

\* The positions of the listing whose content-derived ID is target_id.
Matching(target_id, st) == {i \in DOMAIN st : ContentId(st[i].hash) = target_id}

\* Faulty variant: every entry with that content-derived ID is returned.
LiteralMatchAll(target_id, st) ==
    LET m == Matching(target_id, st)
        RECURSIVE From(_)
        From(i) == IF i > Len(st) THEN <<>>
                   ELSE (IF i \in m THEN <<Lower(st[i].hash)>> ELSE <<>>) \o From(i + 1)
    IN  From(1)

\* Lines 280-290: the loop over the listing appends the first entry whose
\* content-derived ID is target_id and breaks.
LiteralMatch(target_id, st) ==
    LET m == Matching(target_id, st)
    IN  IF m = {} THEN <<>> ELSE <<Lower(st[Least(m)].hash)>>

\* Lines 293-299: target_id as a 1-based position of the listing.
AtPosition(target_id, st) ==
    IF 1 <= target_id /\ target_id <= Len(st)
    THEN <<Lower(st[target_id].hash)>>
    ELSE <<>>

\* Faulty variant: the position is tried before the content-derived ID.
ResolveTargetPositionFirst(target_id, st) ==
    IF AtPosition(target_id, st) # <<>>
    THEN AtPosition(target_id, st)
    ELSE LiteralMatch(target_id, st)

\* Lines 279-299: the content-derived ID first, the position only when no
\* entry has that ID (`if not found`), else a warning and nothing.
ResolveTarget(target_id, st) ==
    IF LiteralMatch(target_id, st) # <<>>
    THEN LiteralMatch(target_id, st)
    ELSE AtPosition(target_id, st)

\* Faulty variant: a digest string is kept only when the listing has it.
HashStringIfListed(s, st) ==
    IF \E i \in DOMAIN st : Lower(st[i].hash) = Lower(s) THEN <<Lower(s)>> ELSE <<>>

\* Lines 271-273: a forty-character string goes into the result lower-cased.
HashString(s, st) == <<Lower(s)>>

\* One turn of the loop at line 269.
ResolveId(id_val, st) ==
    IF id_val.kind = "str" /\ Len(id_val.str) = HashLen
    THEN [raised |-> FALSE, hashes |-> HashString(id_val.str, st)]
    ELSE LET t == IntOf(id_val)
         IN  CASE t.err = "none" ->
                    [raised |-> FALSE, hashes |-> ResolveTarget(t.val, st)]
               [] t.err = "OverflowError" -> [raised |-> TRUE, hashes |-> <<>>]
               [] OTHER -> [raised |-> FALSE, hashes |-> <<>>]

\* Lines 267-308: the loop; an exception no handler catches ends the call.
RECURSIVE ResolveAll(_, _)
ResolveAll(ids, st) ==
    IF ids = <<>> THEN ReturnsList(<<>>)
    ELSE LET r == ResolveId(Head(ids), st)
             rest == ResolveAll(Tail(ids), st)
         IN  IF r.raised \/ rest.kind = "raised" THEN RaisesOut
             ELSE ReturnsList(r.hashes \o rest.hashes)

\* Line 255: ids is None or ids == [] or ids == ''
IsAll(ids) == ids = VNone \/ ids = VList(<<>>) \/ ids = VStr(<<>>)

\* get_torrent_ids(arguments, sorted_torrents), lines 244-308.
GetTorrentIds(a, st) ==
    LET ids == Get(a, "ids", VList(<<>>))
    IN  IF IsAll(ids) THEN ReturnsNone
        ELSE IF ids.kind = "str" /\ ids.str = RecentlyActive THEN ReturnsNone
        ELSE ResolveAll(IF ids.kind = "list" THEN ids.items ELSE <<ids>>, st)

\* Python's order of characters: digits, capitals, small letters.
CharOrder == <<"0", "1", "2", "3", "4", "5", "6", "7", "8", "9",
               "A", "B", "C", "D", "E", "F", "a", "b", "c", "d", "e", "f">>
CharRank(c) == CHOOSE i \in DOMAIN CharOrder : CharOrder[i] = c

\* a < b for strings
RECURSIVE StrLess(_, _)
StrLess(a, b) ==
    IF b = <<>> THEN FALSE
    ELSE IF a = <<>> THEN TRUE
    ELSE IF Head(a) = Head(b) THEN StrLess(Tail(a), Tail(b))
    ELSE CharRank(Head(a)) < CharRank(Head(b))

\* get_sorted_torrents() (src/handlers.py): sorted(torrents, key=lambda t:
\* t['hash']) of a listing given as the set of its digests.
RECURSIVE SortedTorrents(_)
SortedTorrents(S) ==
    IF S = {} THEN <<>>
    ELSE LET m == CHOOSE h \in S : \A u \in S \ {h} : StrLess(h, u)
         IN  <<[hash |-> m]>> \o SortedTorrents(S \ {m})

\* Digests of the upstream: all zeros but the end of the prefix and the end
\* of the string.
Zeros(n) == [i \in 1..n |-> "0"]
Digest(p, t) ==
    Zeros(IdPrefixLen - Len(p)) \o p \o Zeros(HashLen - IdPrefixLen - Len(t)) \o t

\* Content-derived IDs 0, 1, 1, 2 and 10: two digests share an ID, and the
\* IDs 1 and 2 are positions of a listing as well.
H0 == Digest(<<>>, <<"1">>)
H1a == Digest(<<"1">>, <<"a">>)
H1b == Digest(<<"1">>, <<"b">>)
H2 == Digest(<<"2">>, <<>>)
HA == Digest(<<"a">>, <<"c">>)
Hashes == {H0, H1a, H1b, H2, HA}

\* Digest strings a client may send: one of the listing in capitals, one
\* no upstream torrent has.
HACapitals == Digest(<<"A">>, <<"C">>)
HUnknown == Digest(<<"f">>, <<"f">>)

Listings == {SortedTorrents(S) : S \in SUBSET Hashes}

\* The integers a client may send: no ID and no position, an ID, IDs that
\* are positions, a position, an ID beyond every position.
IdNumbers == {-1, 0, 1, 2, 3, 10}

\* One id of a request.
IdValues ==
    {VInt(k) : k \in IdNumbers}
        \cup {VStr(HACapitals), VStr(HUnknown), VStr(<<"2">>), VStr(<<"x">>)}
        \cup {VNone, VInf}

\* Longest list of ids.
MaxIds == 2

IdLists == UNION {[1..n -> IdValues] : n \in 0..MaxIds}

\* The values of 'ids': null, '', 'recently-active', one id, a list of ids.
IdsValues ==
    {VStr(<<>>), VStr(RecentlyActive)} \cup IdValues \cup {VList(l) : l \in IdLists}

\* The `arguments` of a request, as far as ids go: without 'ids' or with it.
ArgumentsOfIds == Opt("ids", IdsValues)

\* The inputs of a call of get_torrent_ids.
InitIds ==
    /\ InitEngine
    /\ InitUp
    /\ InitRival
    /\ InitCtl
    /\ arguments \in ArgumentsOfIds
    /\ sorted_torrents \in Listings
    /\ hashes = NotCalled
    /\ reach = "up"
    /\ logged_in = FALSE
    /\ listing = {}
    /\ request = EmptyDict
    /\ response = NoResponse
    /\ passed = <<>>

\* The call.
GetTorrentIdsCall ==
    /\ hashes = NotCalled
    /\ hashes' = GetTorrentIds(arguments, sorted_torrents)
    /\ UNCHANGED <<arguments, sorted_torrents, reach, logged_in, listing, request,
                   response, passed>>
    /\ UNCHANGED <<syncVars, readerVars, detailVars, upVars, rivalVars, ctlVars>>

NextIds == GetTorrentIdsCall

SpecIds == InitIds /\ [][NextIds]_vars

\* The value of 'ids' in the call's arguments (the default when absent).
IdsGiven == Get(arguments, "ids", VList(<<>>))

\* C21: get_torrent_ids returns None exactly when 'ids' is absent, None, the
\* empty list, the empty string or the string 'recently-active'; for every
\* other value, the integer 0 included, it returns a list.
C21_NoneExactlyForAll ==
    hashes # NotCalled =>
        IF \/ "ids" \notin DOMAIN arguments
           \/ IdsGiven \in {VNone, VList(<<>>), VStr(<<>>), VStr(RecentlyActive)}
        THEN hashes = ReturnsNone
        ELSE hashes.kind = "list"

\* The ids of the call as the loop at line 269 runs over them.
IdsAsList == IF IdsGiven.kind = "list" THEN IdsGiven.items ELSE <<IdsGiven>>

\* The call was for the single integer k.
AskedFor(k) == hashes # NotCalled /\ IdsAsList = <<VInt(k)>>

\* The positions of the listing whose digest has content-derived ID k.
WithContentId(k) ==
    {i \in DOMAIN sorted_torrents : ContentId(sorted_torrents[i].hash) = k}

\* C22: an integer k that is the content-derived ID of an entry resolves to
\* an entry with that ID, also when k is a position 1..N of another entry;
\* k is read as a 1-based position only when no entry has k as its ID.
C22_ContentIdBeforePosition ==
    \A k \in IdNumbers :
        AskedFor(k) =>
            IF WithContentId(k) # {}
            THEN \E i \in WithContentId(k) :
                    hashes = ReturnsList(<<sorted_torrents[i].hash>>)
            ELSE IF k \in DOMAIN sorted_torrents
            THEN hashes = ReturnsList(<<sorted_torrents[k].hash>>)
            ELSE hashes = ReturnsList(<<>>)

\* k is the ID of one entry and the position of another: the first won.
C22_Witness ==
    \E k \in IdNumbers :
        /\ AskedFor(k)
        /\ k \in DOMAIN sorted_torrents
        /\ WithContentId(k) # {}
        /\ k \notin WithContentId(k)
        /\ hashes.hashes # <<sorted_torrents[k].hash>>

\* The resolutions of the ids of l, one after the other.
RECURSIVE Resolutions(_)
Resolutions(l) ==
    IF l = <<>> THEN <<>>
    ELSE ResolveId(Head(l), sorted_torrents).hashes \o Resolutions(Tail(l))

\* C23: for a list of ids the call returns the concatenation, in request
\* order, of the resolutions of the ids that resolve; an id that matches
\* nothing or cannot be converted to an integer adds nothing and does not
\* stop the others; when none resolves the result is the empty list.
C23_DropsAndGoesOn ==
    hashes # NotCalled /\ IdsGiven.kind = "list" /\ IdsGiven.items # <<>> =>
        hashes = ReturnsList(Resolutions(IdsGiven.items))

\* C26: when several digests share the content-derived ID k, the call for k
\* returns one digest, the first of them in the sorted listing, and no error.
C26_FirstOfColliding ==
    \A k \in IdNumbers :
        AskedFor(k) /\ Cardinality(WithContentId(k)) > 1 =>
            hashes = ReturnsList(<<sorted_torrents[Least(WithContentId(k))].hash>>)

\* Two digests share the ID asked for, and one came back.
C26_Witness ==
    \E k \in IdNumbers :
        /\ AskedFor(k)
        /\ Cardinality(WithContentId(k)) > 1
        /\ Len(hashes.hashes) = 1

-----------------------------------------------------------------------------
(* The RPC endpoint: transmission_rpc (src/bridge.py), the handlers of       *)
(* torrent-get and torrent-remove (src/handlers.py) and the adapter calls    *)
(* they make (src/qbittorrent_client.py). One request is one action; the     *)
(* upstream does not change its mind while a request is handled.             *)

\* login(): nothing when already logged in; else the POST, whose answer is
\* "Ok." from an upstream that is up, something else from one that rejects
\* the credentials, and whose exception (upstream down) is caught.
Login(li, r) == li \/ r = "up"

\* get_torrents(): login(), then the GET, which raises when the upstream is
\* down and is not guarded; an answer that is not ok gives the empty list.
ClientGetTorrents(r, L) ==
    CASE r = "down" -> [raised |-> TRUE, torrents |-> {}]
      [] r = "rejects" -> [raised |-> FALSE, torrents |-> {}]
      [] OTHER -> [raised |-> FALSE, torrents |-> L]

\* ids is None or qbt_torrent['hash'] in ids
Selected(torrent, ids) ==
    ids.kind = "None" \/ \E i \in DOMAIN ids.hashes : ids.hashes[i] = torrent.hash

\* Faulty variant: the position among the torrents that are returned.
SequentialIdAmongReturned(idx, st, ids) ==
    Cardinality({j \in 1..idx : Selected(st[j], ids)})

\* sequential_id = idx + 1 for idx of enumerate(sorted_torrents), which
\* counts from 0 where the model's sequences count from 1.
SequentialId(idx, st, ids) == idx

\* qbt_to_transmission_torrent, as far as 'id' and 'hashString' go.
QbtToTransmissionTorrent(torrent, sequential_id) ==
    [id |-> sequential_id, hashString |-> torrent.hash]

\* The loop of handle_torrent_get over the sorted listing, from idx on.
RECURSIVE TorrentsFrom(_, _, _)
TorrentsFrom(idx, st, ids) ==
    IF idx > Len(st) THEN <<>>
    ELSE (IF Selected(st[idx], ids)
          THEN <<QbtToTransmissionTorrent(st[idx], SequentialId(idx, st, ids))>>
          ELSE <<>>) \o TorrentsFrom(idx + 1, st, ids)

\* What a handler leaves behind: an exception or a result, the listing it
\* sorted, what get_torrent_ids gave it, what it passed to the upstream's
\* mutation, and the upstream's torrents afterwards.
Raised(e, st, ids, L) ==
    [raised |-> TRUE, error |-> e, result |-> <<>>, sorted |-> st, ids |-> ids,
     passed |-> <<>>, listing |-> L]
Handled(res, st, ids, p, L) ==
    [raised |-> FALSE, error |-> "", result |-> res, sorted |-> st, ids |-> ids,
     passed |-> p, listing |-> L]

\* handle_torrent_get(arguments)
HandleTorrentGet(a, r, L) ==
    LET got == ClientGetTorrents(r, L)
        st == SortedTorrents(got.torrents)
        ids == GetTorrentIds(a, st)
    IN  IF got.raised THEN Raised("ConnectionError", <<>>, NotCalled, L)
        ELSE IF ids.kind = "raised" THEN Raised("OverflowError", st, ids, L)
        ELSE Handled("torrents" :> TorrentsFrom(1, st, ids), st, ids, <<>>, L)

\* remove_torrents(hashes, delete_data) at an upstream that answers: it
\* deletes the torrents it has among them; one that rejects deletes nothing.
RemoveAtUpstream(r, L, hs) == IF r = "up" THEN L \ Range(hs) ELSE L

\* handle_torrent_remove(arguments): `if ids:` is false for None and [].
HandleTorrentRemove(a, r, L) ==
    LET got == ClientGetTorrents(r, L)
        st == SortedTorrents(got.torrents)
        ids == GetTorrentIds(a, st)
    IN  IF got.raised THEN Raised("ConnectionError", <<>>, NotCalled, L)
        ELSE IF ids.kind = "raised" THEN Raised("OverflowError", st, ids, L)
        ELSE IF ids.hashes # <<>>
        THEN Handled(EmptyDict, st, ids, ids.hashes, RemoveAtUpstream(r, L, ids.hashes))
        ELSE Handled(EmptyDict, st, ids, <<>>, L)

\* handle_torrent_start, _stop, _verify and _reannounce (lines 109-150):
\* as handle_torrent_remove, with a call that leaves the listing as it is.
HandleTorrentAct(a, r, L) ==
    LET got == ClientGetTorrents(r, L)
        st == SortedTorrents(got.torrents)
        ids == GetTorrentIds(a, st)
    IN  IF got.raised THEN Raised("ConnectionError", <<>>, NotCalled, L)
        ELSE IF ids.kind = "raised" THEN Raised("OverflowError", st, ids, L)
        ELSE IF ids.hashes # <<>>
        THEN Handled(EmptyDict, st, ids, ids.hashes, L)
        ELSE Handled(EmptyDict, st, ids, <<>>, L)

Methods == {"torrent-get", "torrent-remove", "torrent-sing"}

\* The methods whose handlers pass the resolved digests to one upstream call.
ActMethods == {"torrent-start", "torrent-stop", "torrent-verify", "torrent-reannounce"}

\* The dispatch of transmission_rpc; unknown methods have no handler.
Known(method) == method \in {"torrent-get", "torrent-remove"} \cup ActMethods
Handle(method, a, r, L) ==
    IF method = "torrent-get" THEN HandleTorrentGet(a, r, L)
    ELSE IF method = "torrent-remove" THEN HandleTorrentRemove(a, r, L)
    ELSE HandleTorrentAct(a, r, L)

\* tag = data.get('tag'): None when the request has none.
TagOf(d) == Get(d, "tag", VNone)

\* The answers of transmission_rpc: jsonify of a dict and the HTTP status.
UnknownMethod(d) ==
    [status |-> 200, body |-> ("result" :> "error") @@ ("tag" :> TagOf(d))]
Success(d, res) ==
    [status |-> 200,
     body |-> ("arguments" :> res) @@ ("result" :> "success") @@ ("tag" :> TagOf(d))]
Failure(d, e) ==
    [status |-> 500, body |-> ("result" :> e) @@ ("tag" :> TagOf(d))]

\* The ids of the requests.
RpcIds ==
    {VInt(1), VInt(2), VInt(3), VStr(HUnknown), VStr(HACapitals),
     VList(<<VInt(2), VStr(HUnknown)>>), VList(<<VInf, VInt(1)>>),
     VStr(RecentlyActive)}

\* The JSON bodies of the requests: a method, arguments, with or without tag.
Requests ==
    { ("method" :> m) @@ ("arguments" :> a) @@ t :
        m \in Methods, a \in Opt("ids", RpcIds), t \in Opt("tag", {VInt(7)}) }

\* transmission_rpc(): one request, from get_json() to the response.
TransmissionRpc(R) ==
    \E d \in R :
        LET method == Get(d, "method", "")
            a == Get(d, "arguments", EmptyDict)
            h == Handle(method, a, reach, listing)
        IN  /\ request' = d
            /\ arguments' = a
            /\ IF ~Known(method)
               THEN /\ response' = UnknownMethod(d)
                    /\ sorted_torrents' = <<>>
                    /\ hashes' = NotCalled
                    /\ passed' = <<>>
                    /\ UNCHANGED <<listing, logged_in>>
               ELSE /\ response' = IF h.raised THEN Failure(d, h.error)
                                   ELSE Success(d, h.result)
                    /\ sorted_torrents' = h.sorted
                    /\ hashes' = h.ids
                    /\ passed' = h.passed
                    /\ listing' = h.listing
                    /\ logged_in' = Login(logged_in, reach)
            /\ UNCHANGED reach
            /\ UNCHANGED <<syncVars, readerVars, detailVars, upVars, rivalVars, ctlVars>>

\* The digests the upstream of the endpoint may hold: IDs 1, 2 and 10.
RpcHashes == {H1a, H2, HA}

\* A torrent is added at the upstream by another client.
UpstreamAdds ==
    /\ \E h \in RpcHashes : h \notin listing /\ listing' = listing \cup {h}
    /\ UNCHANGED <<arguments, sorted_torrents, hashes, reach, logged_in, request,
                   response, passed>>
    /\ UNCHANGED <<syncVars, readerVars, detailVars, upVars, rivalVars, ctlVars>>

\* The upstream goes down, comes up, or starts rejecting the session.
ReachChanges ==
    /\ \E r \in {"up", "down", "rejects"} : r # reach /\ reach' = r
    /\ UNCHANGED <<arguments, sorted_torrents, hashes, logged_in, listing, request,
                   response, passed>>
    /\ UNCHANGED <<syncVars, readerVars, detailVars, upVars, rivalVars, ctlVars>>

NextRpc == TransmissionRpc(Requests) \/ UpstreamAdds \/ ReachChanges

SpecRpc == Init /\ [][NextRpc]_vars

\* The latest request was for `method` and was answered with success.
Succeeded(method) ==
    /\ response.status = 200
    /\ request.method = method
    /\ response.body.result = "success"

\* The digest strings among the ids of the latest call, lower-cased.
DigestStringsAsked ==
    {Lower(IdsAsList[i].str) :
        i \in {j \in DOMAIN IdsAsList :
                IdsAsList[j].kind = "str" /\ Len(IdsAsList[j].str) = HashLen}}

TorrentsAnswered == response.body.arguments.torrents

\* The digests of the listing the handler sorted.
DigestsListed == {sorted_torrents[i].hash : i \in DOMAIN sorted_torrents}

\* The 1-based position of digest h among the digests listed, in ascending order.
PositionOf(h) == 1 + Cardinality({u \in DigestsListed : StrLess(u, h)})

C27_TagEchoedIffPresent ==
    response # NoResponse =>
        /\ "tag" \in DOMAIN response.body <=> "tag" \in DOMAIN request
        /\ "tag" \in DOMAIN request => response.body.tag = request.tag

\* C28: a torrent-get handled while the upstream is down or rejects the
\* session is answered with success and no torrents, not with an HTTP 500
\* (requests whose ids make get_torrent_ids raise aside).
C28_AdapterFailureGivesEmpty ==
    [][(/\ reach \in {"down", "rejects"}
        /\ reach' = reach
        /\ listing' = listing
        /\ request' # EmptyDict
        /\ request'.method = "torrent-get"
        /\ hashes'.kind # "raised")
       => (/\ response'.status = 200
           /\ response'.body.result = "success"
           /\ response'.body.arguments = ("torrents" :> <<>>))]_vars

-----------------------------------------------------------------------------
(* The engine against an upstream that keeps torrents and answers the       *)
(* incremental sync: the full listing for rid 0 or a rid it did not hand    *)
(* out last, else what changed since the response with that rid.            *)

\* C30: a poll supplies rid 0 when it is the first after start() and the
\* stored rid otherwise; the rid stored after a response was applied is the
\* response's (the rid sent when it carries none); a cycle that did not
\* apply its response - the poll failed, the payload was empty, the
\* response raised - leaves the stored rid as it was, so that the next poll
\* asks again for what was not applied.
C30_RidDiscipline ==
    /\ syncPc = "got_data" => sentRid = (IF full THEN 0 ELSE cache.rid)
    /\ syncPc = "release" => cache.rid = Get(data, "rid", sentRid)
    /\ outcome \in {"poll_failed", "empty", "raised"} => cache.rid = before.rid

\* How many changes the upstream sees before it goes quiet.
MaxChanges == 2

\* The upstream's torrents carry every field.
WholeEntries == {e \in Entries : DOMAIN e = TorrentFields}

\* The response id after r; the ids come around after MaxRid.
NextRid(r) == IF r >= MaxRid THEN 1 ELSE r + 1

\* The fields of `new` that `old` has not, or has with another value.
ChangedFields(old, new) ==
    [k \in {f \in DOMAIN new : f \notin DOMAIN old \/ old[f] # new[f]} |-> new[k]]

\* The torrents section of a delta: new torrents whole, changed torrents
\* with their changed fields, unchanged torrents not at all.
ChangedTorrents(old, new) ==
    [h \in {d \in DOMAIN new : d \notin DOMAIN old \/ old[d] # new[d]} |->
        IF h \in DOMAIN old THEN ChangedFields(old[h], new[h]) ELSE new[h]]

\* The elements of a set, as a list.
RECURSIVE ListOf(_)
ListOf(S) ==
    IF S = {} THEN <<>>
    ELSE LET x == CHOOSE y \in S : TRUE IN <<x>> \o ListOf(S \ {x})

\* The keys of a response that are there only when they have something.
IfAny(k, v, empty) == IF v.items = empty THEN EmptyDict ELSE k :> v

\* The upstream's answer to the poll with resume token rid.
SyncMaindata(rid, torrents, lastRid, lastTorrents) ==
    IF rid # 0 /\ rid = lastRid
    THEN ("rid" :> NextRid(lastRid))
            @@ IfAny("torrents", JDict(ChangedTorrents(lastTorrents, torrents)), <<>>)
            @@ IfAny("torrents_removed",
                     JList(ListOf(DOMAIN lastTorrents \ DOMAIN torrents)), <<>>)
    ELSE ("rid" :> NextRid(lastRid)) @@ ("full_update" :> TRUE)
            @@ ("torrents" :> JDict(torrents))

\* Lines 107-110 against this upstream, which remembers what it answered.
SyncPollUpstream ==
    /\ syncPc = "poll"
    /\ sentRid' = PollRid(cache, full)
    /\ data' = SyncMaindata(sentRid', upTorrents, upRid, upAt)
    /\ upRid' = NextRid(upRid)
    /\ upAt' = upTorrents
    /\ before' = cache
    /\ outcome' = "none"
    /\ syncPc' = "got_data"
    /\ UNCHANGED <<cache, lock, running, initialized, full, torn>>
    /\ UNCHANGED <<upTorrents, changes>>
    /\ UNCHANGED <<readerVars, detailVars, frontVars, rivalVars, ctlVars>>

\* The upstream's torrents change, through a mutation of the bridge or
\* otherwise: a torrent is added, removed, or gets other field values.
UpstreamChanges ==
    /\ changes < MaxChanges
    /\ changes' = changes + 1
    /\ \/ \E h \in Digests \ DOMAIN upTorrents, e \in WholeEntries :
            upTorrents' = (h :> e) @@ upTorrents
       \/ \E h \in DOMAIN upTorrents :
            upTorrents' = [d \in DOMAIN upTorrents \ {h} |-> upTorrents[d]]
       \/ \E h \in DOMAIN upTorrents :
            \E e \in WholeEntries \ {upTorrents[h]} :
                upTorrents' = [upTorrents EXCEPT ![h] = e]
    /\ UNCHANGED <<upRid, upAt>>
    /\ UNCHANGED <<syncVars, readerVars, detailVars, frontVars, rivalVars, ctlVars>>

\* The background thread polling this upstream: its polls succeed and the
\* responses are of the right shape, so no cycle ends in the handlers.
SyncThreadUpstream ==
    \/ SyncPollUpstream
    \/ SyncLoop
    \/ SyncSleep
    \/ SyncLock
    \/ SyncReplace
    \/ SyncMerge
    \/ SyncRelease

NextEventual ==
    \/ Start
    \/ Stop
    \/ SyncThreadUpstream
    \/ UpstreamChanges

\* The thread is scheduled and every poll is answered.
SpecEventual == Init /\ [][NextEventual]_vars /\ WF_vars(SyncThreadUpstream)

\* get_torrents() would return the upstream's torrents, field for field.
Consistent == TorrentList(cache.torrents) = TorrentList(upTorrents)

\* C29: once the upstream's torrents have stopped changing, and as long as
\* the sync loop is running from then on, get_torrents() comes to return
\* exactly the upstream's torrents with the upstream's field values, and
\* goes on doing so.
C29_EventuallyConsistent ==
    (<>[]running /\ <>[][upTorrents' = upTorrents]_vars) => <>[]Consistent

\* The upstream went quiet with a torrent the engine first saw otherwise,
\* and an incremental response brought the snapshot to agree with it.
C29_Witness ==
    /\ running
    /\ changes = MaxChanges
    /\ upTorrents # <<>>
    /\ outcome = "applied"
    /\ cache.rid # 0
    /\ before.torrents # <<>>
    /\ before.torrents # cache.torrents
    /\ Consistent

-----------------------------------------------------------------------------
(* Lock discipline of the engine.                                           *)

\* The step in which a recurring cycle reads the stored rid (line 107).
ReadsStoredRid == syncPc = "poll" /\ syncPc' # "poll" /\ ~full

\* C33: every read and every write of the stored rid, the torrents map and
\* the server state is made by a thread that holds the engine's lock: the
\* background thread when it reads the rid it sends and when it changes the
\* cache, the request thread when it copies out of the cache.
C33_AccessUnderLock ==
    [][/\ ReadsStoredRid => lock = "sync"
       /\ cache' # cache => (lock = "sync" \/ lock' = "sync")
       /\ ret' # ret => lock = "reader"]_vars

-----------------------------------------------------------------------------
(* The handlers and the ids they list and resolve.                          *)

\* No ids were asked for: 'ids' absent, None, [], '' or 'recently-active'.
NoIdsAsked == IsAll(IdsGiven) \/ IdsGiven = VStr(RecentlyActive)

\* The digests the ids of the latest request resolve to, one id at a time.
DigestsResolved == Range(Resolutions(IdsAsList))

\* The digests of the torrents of the latest torrent-get response.
DigestsAnswered == {TorrentsAnswered[i].hashString : i \in DOMAIN TorrentsAnswered}

\* The latest request was for `method` and its handler had the listing.
HandledWithListing(method) ==
    /\ response # NoResponse
    /\ request.method = method
    /\ hashes # NotCalled

\* C35: torrent-get returns exactly the torrents of the listing whose digest
\* is among the resolved ids - none when ids were asked for and none of them
\* resolves - and all torrents of the listing only when no ids were asked for.
C35_ExactlyTheResolved ==
    HandledWithListing("torrent-get") =>
        /\ Succeeded("torrent-get")
        /\ DigestsAnswered =
              IF NoIdsAsked THEN DigestsListed ELSE DigestsListed \cap DigestsResolved
        /\ Len(TorrentsAnswered) = Cardinality(DigestsAnswered)

\* What torrent-get lists for the listing when no ids are asked for.
Listed == TorrentsFrom(1, sorted_torrents, ReturnsNone)

\* C36: for every torrent that torrent-get lists with id k, resolving the
\* integer k against the same sorted listing gives the one-element list of
\* that torrent's digest.
C36_ListedIdRoundTrip ==
    \A i \in DOMAIN Listed :
        AskedFor(Listed[i].id) => hashes = ReturnsList(<<Listed[i].hashString>>)

\* The handlers that pass the resolved digests to one upstream mutation.
MutationMethods == ActMethods \cup {"torrent-remove"}

\* Requests for those handlers: no ids in each of the ways, ids that do not
\* resolve, ids that do.
MutationIds ==
    {VNone, VList(<<>>), VStr(<<>>), VStr(RecentlyActive), VInt(3), VInt(1),
     VStr(<<"x">>), VList(<<VInt(3), VNone>>), VList(<<VInf>>), VStr(HUnknown)}
MutationRequests ==
    { ("method" :> m) @@ ("arguments" :> a) :
        m \in MutationMethods, a \in Opt("ids", MutationIds) }

NextMutations == TransmissionRpc(MutationRequests) \/ UpstreamAdds \/ ReachChanges

SpecMutations == Init /\ [][NextMutations]_vars

\* C37: when no ids are asked for, or none of the ids asked for resolves,
\* torrent-start, -stop, -verify, -reannounce and -remove make no upstream
\* mutation call and answer with an empty arguments object.
C37_NoIdsNoMutation ==
    \A m \in MutationMethods :
        HandledWithListing(m) /\ (NoIdsAsked \/ DigestsResolved = {}) =>
            /\ passed = <<>>
            /\ Succeeded(m)
            /\ response.body.arguments = EmptyDict

-----------------------------------------------------------------------------
(* Frame of an incremental response.                                        *)

\* Responses with each section present or absent, about one torrent at most.
FrameResponses ==
    { f @@ t @@ x @@ s @@ c @@ g @@ k :
        f \in Opt("full_update", {TRUE}),
        t \in Opt("torrents", {JDict(h :> [name |-> "A"]) : h \in Digests}),
        x \in Opt("torrents_removed", {JList(<<D1>>)}),
        s \in Opt("server_state", {JDict("dl_info_speed" :> 5)}),
        c \in Opt("categories", {JDict("movies" :> "/movies")}),
        g \in Opt("tags", {JList(<<"t1">>)}),
        k \in Opt("trackers", {JDict("udp://t" :> 1)}) }

\* The engine syncing while a request thread reads the files of one digest.
NextFrame ==
    \/ Start
    \/ SyncThread(FrameResponses)
    \/ DetailThread({D1}, {Only({"files"})})

SpecFrame == Init /\ [][NextFrame]_vars

\* The digests response d mentions, as changed or as removed.
Mentioned(d) == DOMAIN Section(d, "torrents") \cup Range(Section(d, "torrents_removed"))

\* The sections the incremental branch merges besides the torrents.
GlobalSections == {"server_state", "categories", "tags", "trackers"}

\* The background thread is in, or just past, the incremental branch.
InIncremental == syncPc \in MergePcs \cup {"release"} /\ ~IsFull(data)

\* What the response of the running cycle does not mention is as it was when
\* the cycle began.
Untouched ==
    /\ \A k \in GlobalSections : k \notin DOMAIN data => cache[k] = before[k]
    /\ \A h \in DOMAIN before.torrents \ Mentioned(data) :
          h \in DOMAIN cache.torrents /\ cache.torrents[h] = before.torrents[h]

\* C39: an incremental response leaves every section whose key it lacks and
\* every torrent it names neither as changed nor as removed as they were, and
\* no step of _do_sync changes the detail cache.
C39_IncrementalFrame ==
    [][/\ syncPc' # syncPc => detailCache' = detailCache
       /\ InIncremental' => Untouched']_vars

C39_Witness ==
    /\ syncPc = "release"
    /\ ~IsFull(data)
    /\ cache # before
    /\ "tags" \notin DOMAIN data /\ before.tags # <<>>
    /\ "server_state" \notin DOMAIN data /\ before.server_state # <<>>
    /\ DOMAIN before.torrents \ Mentioned(data) # {}
    /\ detailCache # <<>>

-----------------------------------------------------------------------------
(* No lock across a sleep or an upstream call.                              *)

\* The background thread sleeps between polls, sleeps after an error, or is
\* in its call of get_sync_maindata.
SyncWaits == syncPc \in {"sleep", "backoff", "poll"}

\* The request thread is between its two blocks, in its upstream calls.
DetailWaits == detPc = "fetch"

\* C34: a thread that sleeps between polls, sleeps in the error backoff or
\* waits for an upstream call (the sync fetch, a detail fetch) does not hold
\* the engine's lock.
C34_NoLockWhileWaiting ==
    /\ SyncWaits => lock # "sync"
    /\ DetailWaits => lock # "detail"

\* Both threads wait, one in its backoff after a cycle that stored torrents
\* and one in its detail fetch after its look into the detail cache.
C34_Witness ==
    /\ syncPc = "backoff"
    /\ detPc = "fetch"
    /\ cache # EmptyCache
    /\ lock = "free"

-----------------------------------------------------------------------------
(* Invalidation against a call in flight.                                   *)

\* The request thread has been answered from the entry that a call overtaken
\* by the latest invalidation stored: what it returns was fetched before
\* that invalidation, by a call that began after it.
ServedFromBefore ==
    /\ inv.phase = "stale"
    /\ WasHit
    /\ DetailKey = Lower(inv.torrent_hash)

\* C32: once invalidate_torrent_details(d) has returned, no call of
\* get_torrent_details(d) that begins afterwards returns what was fetched
\* from the upstream before the invalidation, also when a call for d had
\* fetched and not yet stored while the invalidation ran.
C32_NothingFromBeforeInvalidation == ~ServedFromBefore

-----------------------------------------------------------------------------
(* Two request threads in get_torrent_details for one digest.               *)

\* What the second request thread asks for: the files of D1.
RivalNeed == Only({"files"})

\* Lines 224-225 in the second thread.
RivalCall ==
    /\ rivalPc = "idle"
    /\ rivalTime' = now
    /\ rivalPc' = "check"
    /\ UNCHANGED <<rivalResult, ctlVars>>
    /\ UNCHANGED <<syncVars, readerVars, detailVars, frontVars, upVars>>

\* Lines 227-254 in the second thread.
RivalCheck ==
    /\ rivalPc = "check"
    /\ lock = "free"
    /\ lock' = LockLeft("rival")
    /\ rivalPc' = IF IsHit(detailCache, D1, rivalTime, RivalNeed) THEN "done" ELSE "fetch"
    /\ UNCHANGED <<rivalTime, rivalResult, ctlVars>>
    /\ UNCHANGED <<syncVarsButLock, readerVars, detailVars, frontVars, upVars>>

\* Lines 256-284 in the second thread.
RivalFetch ==
    /\ rivalPc = "fetch"
    /\ rivalResult' =
          [result |-> FetchResult(ToFetch(RivalNeed), upstreamGen[D1]),
           fetched |-> [p \in ToFetch(RivalNeed) |-> [at |-> now, gen |-> upstreamGen[D1]]]]
    /\ rivalPc' = "store"
    /\ UNCHANGED <<rivalTime, ctlVars>>
    /\ UNCHANGED <<syncVars, readerVars, detailVars, frontVars, upVars>>

\* Lines 286-304 in the second thread.
RivalStore ==
    /\ rivalPc = "store"
    /\ lock = "free"
    /\ lock' = LockLeft("rival")
    /\ detailCache' = StoreDetails(detailCache, D1, RivalNeed, rivalResult.result, rivalTime)
    /\ fetchedAt' = Update(fetchedAt, D1 :> Logged(fetchedAt, D1, rivalResult.fetched))
    /\ inv' = IF Lower(inv.torrent_hash) = D1
              THEN [inv EXCEPT !.phase = AfterStore(@)]
              ELSE inv
    /\ rivalPc' = "done"
    /\ UNCHANGED <<rivalTime, rivalResult, ctlVars>>
    /\ UNCHANGED <<now, upstreamGen, detPc, detArg, detTime, seen, fetched, result, detRet>>
    /\ UNCHANGED <<syncVarsButLock, readerVars, frontVars, upVars>>

\* The second thread's call returns.
RivalReturn ==
    /\ rivalPc = "done"
    /\ rivalPc' = "idle"
    /\ rivalTime' = 0
    /\ rivalResult' = NoResult
    /\ UNCHANGED ctlVars
    /\ UNCHANGED <<syncVars, readerVars, detailVars, frontVars, upVars>>

RivalThread ==
    \/ RivalCall
    \/ RivalCheck
    \/ RivalFetch
    \/ RivalStore
    \/ RivalReturn

\* Two request threads reading the files of D1 while time passes; nothing
\* invalidates.
NextRival ==
    \/ Tick
    \/ DetailThread({D1}, {RivalNeed})
    \/ RivalThread

SpecRival == Init /\ [][NextRival]_vars

\* The first thread stores an entry for digest h in this step.
FirstStores(h) == detPc = "store" /\ detPc' = "done" /\ DetailKey = h

\* The second thread does.
RivalStores(h) == rivalPc = "store" /\ rivalPc' = "done" /\ h = D1

\* C38: with no invalidation between, the timestamp of a digest's entry
\* never decreases, and a call that started before the call whose store
\* stamped the entry leaves the entry as it is.
C38_TimestampNeverBack ==
    [][\A h \in DOMAIN detailCache :
          /\ detailCache'[h]["timestamp"] >= detailCache[h]["timestamp"]
          /\ (FirstStores(h) /\ detTime < detailCache[h]["timestamp"]) =>
                detailCache'[h] = detailCache[h]
          /\ (RivalStores(h) /\ rivalTime < detailCache[h]["timestamp"]) =>
                detailCache'[h] = detailCache[h]]_vars

-----------------------------------------------------------------------------
(* start() and stop() step by step, with every thread start() launches.     *)
(* A thread is followed through _sync_loop only: what its _do_sync does to   *)
(* the cache is the subject of the sections above.                          *)

syncVarsButFlags == <<cache, lock, syncPc, full, sentRid, data, before, torn, outcome>>
otherVars == <<syncVarsButFlags, readerVars, detailVars, frontVars, upVars, rivalVars>>

\* Line 55: `if self._running:`.
StartTest(c) ==
    /\ startPc[c] = "idle"
    /\ startPc' = [startPc EXCEPT ![c] = IF running THEN "warned" ELSE "set"]
    /\ UNCHANGED <<running, initialized, stopPc, thread, loops, otherVars>>

\* Lines 56-57: the warning, and the return.
StartWarned(c) ==
    /\ startPc[c] = "warned"
    /\ startPc' = [startPc EXCEPT ![c] = "idle"]
    /\ UNCHANGED <<running, initialized, stopPc, thread, loops, otherVars>>

\* Line 59: self._running = True.
StartSet(c) ==
    /\ startPc[c] = "set"
    /\ running' = TRUE
    /\ startPc' = [startPc EXCEPT ![c] = "launch"]
    /\ UNCHANGED <<initialized, stopPc, thread, loops, otherVars>>

\* Lines 60-61: a new thread is made, kept in self._thread and started.
StartLaunch(c) ==
    /\ startPc[c] = "launch"
    /\ \E i \in Threads :
         /\ loops[i] \in {"none", "exited"}
         /\ thread' = i
         /\ loops' = [loops EXCEPT ![i] = "initial"]
    /\ startPc' = [startPc EXCEPT ![c] = "wait"]
    /\ UNCHANGED <<running, initialized, stopPc, otherVars>>

\* Lines 66-69: the wait for the event ends, the event set or 10 s gone.
StartWaited(c) ==
    /\ startPc[c] = "wait"
    /\ startPc' = [startPc EXCEPT ![c] = "idle"]
    /\ UNCHANGED <<running, initialized, stopPc, thread, loops, otherVars>>

\* Lines 73-78 of stop(): the flag is cleared.
StopClear ==
    /\ stopPc = "idle"
    /\ running
    /\ running' = FALSE
    /\ stopPc' = IF thread # 0 THEN "join" ELSE "idle"
    /\ UNCHANGED <<initialized, startPc, thread, loops, otherVars>>

\* Line 79: join(timeout=5) returns, the thread ended or 5 s gone.
StopJoined ==
    /\ stopPc = "join"
    /\ stopPc' = "idle"
    /\ UNCHANGED <<running, initialized, startPc, thread, loops, otherVars>>

\* Lines 87-89: the initial sync returns and the event is set.
LoopInitial(i) ==
    /\ loops[i] = "initial"
    /\ initialized' = TRUE
    /\ loops' = [loops EXCEPT ![i] = "test"]
    /\ UNCHANGED <<running, startPc, stopPc, thread, otherVars>>

\* Lines 90-93: the initial sync raises; the event is set, the thread ends.
LoopInitialFails(i) ==
    /\ loops[i] = "initial"
    /\ initialized' = TRUE
    /\ loops' = [loops EXCEPT ![i] = "exited"]
    /\ UNCHANGED <<running, startPc, stopPc, thread, otherVars>>

\* Line 96: `while self._running:`.
LoopTest(i) ==
    /\ loops[i] = "test"
    /\ loops' = [loops EXCEPT ![i] = IF running THEN "sleep" ELSE "exited"]
    /\ UNCHANGED <<running, initialized, startPc, stopPc, thread, otherVars>>

\* Line 98: time.sleep(self.poll_interval) returns.
LoopSlept(i) ==
    /\ loops[i] = "sleep"
    /\ loops' = [loops EXCEPT ![i] = "sync"]
    /\ UNCHANGED <<running, initialized, startPc, stopPc, thread, otherVars>>

\* Line 99: _do_sync(full=False) returns.
LoopSynced(i) ==
    /\ loops[i] = "sync"
    /\ loops' = [loops EXCEPT ![i] = "test"]
    /\ UNCHANGED <<running, initialized, startPc, stopPc, thread, otherVars>>

\* Lines 100-103: it raises, and the thread sleeps 5 s.
LoopSyncFails(i) ==
    /\ loops[i] = "sync"
    /\ loops' = [loops EXCEPT ![i] = "backoff"]
    /\ UNCHANGED <<running, initialized, startPc, stopPc, thread, otherVars>>

\* Line 103: time.sleep(5) returns.
LoopBackedOff(i) ==
    /\ loops[i] = "backoff"
    /\ loops' = [loops EXCEPT ![i] = "test"]
    /\ UNCHANGED <<running, initialized, startPc, stopPc, thread, otherVars>>

\* start() in caller c.
StartCall(c) ==
    \/ StartTest(c)
    \/ StartWarned(c)
    \/ StartSet(c)
    \/ StartLaunch(c)
    \/ StartWaited(c)

\* stop() in its caller.
StopCall ==
    \/ StopClear
    \/ StopJoined

\* _sync_loop in thread i.
SyncLoopOf(i) ==
    \/ LoopInitial(i)
    \/ LoopInitialFails(i)
    \/ LoopTest(i)
    \/ LoopSlept(i)
    \/ LoopSynced(i)
    \/ LoopSyncFails(i)
    \/ LoopBackedOff(i)

NextStart ==
    \/ \E c \in Callers : StartCall(c)
    \/ StopCall
    \/ \E i \in Threads : SyncLoopOf(i)

SpecStart == Init /\ [][NextStart]_vars

\* The threads that are in _sync_loop.
AliveLoops == {i \in Threads : loops[i] \notin {"none", "exited"}}

\* C31: however calls of start() and stop() interleave, at most one thread
\* is in the sync loop at any time, and a start() that finds the engine
\* running goes to its warning and launches nothing.
C31_AtMostOneLoop ==
    [][/\ Cardinality(AliveLoops') <= 1
       /\ \A c \in Callers :
            (startPc[c] = "idle" /\ running /\ startPc'[c] # "idle") =>
                startPc'[c] = "warned"]_vars

====
